---------------------------- MODULE Spec2Model ----------------------------
(***************************************************************************)
(* Skylark drone operations coordinator: the in-memory record store        *)
(* (src/lib/dataStore.ts), the conflict detection engine                   *)
(* (src/lib/conflicts.ts) and the assignment tools of the chat route       *)
(* (src/app/api/chat/route.ts).                                            *)
(*                                                                         *)
(* Records are modelled field by field.  A date string 'YYYY-MM-DD' is a   *)
(* day number; new Date(s) turns it into milliseconds.  Strings keep their *)
(* case, and toLowerCase is a table over the tokens of the model.  The     *)
(* human-readable message of a conflict is left out: it is formatted from  *)
(* the fields the record keeps.                                            *)
(***************************************************************************)
EXTENDS Integers, Sequences, FiniteSets, TLC

VARIABLES
    pilots,     \* dataStore.ts: let pilots: Pilot[]
    drones,     \* dataStore.ts: let drones: Drone[]
    missions,   \* dataStore.ts: let missions: Mission[]
    call,       \* the tool call that ran last: its name and parameters
    ret,        \* what that call returned
    inv,        \* assignPilotToMission invocations in flight (SpecConc)
    sync,       \* dataStore.ts: let initialized, let lastSyncTime; the clock
    sheets      \* the spreadsheet behind the store, or none configured

vars == <<pilots, drones, missions, call, ret, inv, sync, sheets>>

-----------------------------------------------------------------------------
(* Bounds *)

\* Dates are the days 1..MaxDay.
MaxDay == 2

\* The clock of the store counts minutes, 0..MaxNow.
MaxNow == 6

\* The dates datesOverlap is called with on its own are the days 1..MaxDate.
MaxDate == 4

-----------------------------------------------------------------------------
(* Sequence helpers: Array.prototype.some / every / filter / map / find *)

Some(s, Test(_)) == \E k \in 1..Len(s) : Test(s[k])

Every(s, Test(_)) == \A k \in 1..Len(s) : Test(s[k])

Filter(s, Test(_)) == SelectSeq(s, Test)

Map(s, F(_)) == [k \in 1..Len(s) |-> F(s[k])]

\* findIndex: the first index whose element passes, 0 when none does
\* (JavaScript's -1; sequences here start at 1).
FindIndex(s, Test(_)) ==
    IF \E k \in 1..Len(s) : Test(s[k])
    THEN CHOOSE k \in 1..Len(s) : Test(s[k]) /\ \A l \in 1..(k - 1) : ~Test(s[l])
    ELSE 0

RECURSIVE Flatten(_)
Flatten(ss) == IF ss = << >> THEN << >> ELSE Head(ss) \o Flatten(Tail(ss))

\* The index pairs (i, j), i < j, in the order of the nested loops
\* for (i = 0..n-1) for (j = i+1..n-1).
LoopPairs(n) ==
    Filter([k \in 1..(n * n) |-> <<((k - 1) \div n) + 1, ((k - 1) % n) + 1>>],
           LAMBDA p : p[1] < p[2])

-----------------------------------------------------------------------------
(* Strings *)

\* The value of an absent optional field or parameter.
Undefined == "undefined"

\* String.prototype.toLowerCase over the tokens of the model.
LowerCaseTable ==
    ("Mapping" :> "mapping") @@ ("Inspection" :> "inspection") @@
    ("Thermal" :> "thermal") @@ ("Survey" :> "survey") @@
    ("DGCA" :> "dgca") @@ ("Night Ops" :> "night ops") @@
    ("Bangalore" :> "bangalore") @@ ("Mumbai" :> "mumbai") @@
    ("Delhi" :> "delhi") @@ ("LiDAR" :> "lidar") @@ ("RGB" :> "rgb")

toLowerCase(s) == IF s \in DOMAIN LowerCaseTable THEN LowerCaseTable[s] ELSE s

-----------------------------------------------------------------------------
(* types.ts *)

PilotStatus == {"Available", "Assigned", "On Leave", "Unavailable"}
DroneStatus == {"Available", "Maintenance", "Deployed"}
MissionStatus == {"Planned", "Active", "Completed", "Cancelled"}
Priority == {"Urgent", "High", "Standard"}

-----------------------------------------------------------------------------
(* conflicts.ts: predicates *)

MsPerDay == 86400000

\* new Date('YYYY-MM-DD'): milliseconds since the epoch, UTC midnight.
Date(day) == day * MsPerDay

\* An overlap test over half-open ranges: a range ends before its last day.
datesOverlapStrict(start1, end1, start2, end2) ==
    LET s1 == Date(start1)
        e1 == Date(end1)
        s2 == Date(start2)
        e2 == Date(end2)
    IN  s1 < e2 /\ s2 < e1

datesOverlap(start1, end1, start2, end2) ==
    LET s1 == Date(start1)
        e1 == Date(end1)
        s2 == Date(start2)
        e2 == Date(end2)
    IN  s1 <= e2 /\ s2 <= e1

\* A reading of hasCertifications that is content with one of the required
\* certifications.
hasCertificationsAny(pilot, requiredCerts) ==
    Some(requiredCerts, LAMBDA cert :
        Some(pilot.certifications, LAMBDA pc : toLowerCase(pc) = toLowerCase(cert)))

hasCertifications(pilot, requiredCerts) ==
    Every(requiredCerts, LAMBDA cert :
        Some(pilot.certifications, LAMBDA pc : toLowerCase(pc) = toLowerCase(cert)))

hasSkills(pilot, requiredSkills) ==
    Every(requiredSkills, LAMBDA skill :
        Some(pilot.skills, LAMBDA ps : toLowerCase(ps) = toLowerCase(skill)))

\* m.mission_status === 'Active' || m.mission_status === 'Planned'
IsActiveOrPlanned(m) == m.mission_status = "Active" \/ m.mission_status = "Planned"

Conflict(type, severity, entities, mission_id) ==
    [type |-> type, severity |-> severity, entities |-> entities,
     mission_id |-> mission_id]


-----------------------------------------------------------------------------
(* conflicts.ts: detectAllConflicts *)

\* allPilots.find((p) => p.pilot_id === id): the index of the record, 0 for
\* undefined.
FindPilot(ps, id) == FindIndex(ps, LAMBDA p : p.pilot_id = id)

FindDrone(ds, id) == FindIndex(ds, LAMBDA d : d.drone_id = id)

FindMission(ms, id) == FindIndex(ms, LAMBDA m : m.project_id = id)

\* A scan that takes the missions of every status.
AllMissions(ms) == ms

\* allMissions.filter(Active or Planned)
ActiveMissions(ms) == Filter(ms, IsActiveOrPlanned)

\* A scan that compares each mission with the next one only.
ScanPilotDoubleBookingAdjacent(am) ==
    LET hit == Filter(LoopPairs(Len(am)), LAMBDA p :
                   /\ p[2] = p[1] + 1
                   /\ am[p[1]].assigned_pilot # ""
                   /\ am[p[1]].assigned_pilot = am[p[2]].assigned_pilot
                   /\ datesOverlap(am[p[1]].start_date, am[p[1]].end_date,
                                   am[p[2]].start_date, am[p[2]].end_date))
    IN  Map(hit, LAMBDA p :
            Conflict("double_booking_pilot", "error",
                     <<am[p[1]].assigned_pilot, am[p[1]].project_id,
                       am[p[2]].project_id>>,
                     am[p[1]].project_id))

\* 1. Double-booking detection for pilots
ScanPilotDoubleBooking(am) ==
    LET hit == Filter(LoopPairs(Len(am)), LAMBDA p :
                   /\ am[p[1]].assigned_pilot # ""
                   /\ am[p[1]].assigned_pilot = am[p[2]].assigned_pilot
                   /\ datesOverlap(am[p[1]].start_date, am[p[1]].end_date,
                                   am[p[2]].start_date, am[p[2]].end_date))
    IN  Map(hit, LAMBDA p :
            Conflict("double_booking_pilot", "error",
                     <<am[p[1]].assigned_pilot, am[p[1]].project_id,
                       am[p[2]].project_id>>,
                     am[p[1]].project_id))

\* 2. Double-booking detection for drones
ScanDroneDoubleBooking(am) ==
    LET hit == Filter(LoopPairs(Len(am)), LAMBDA p :
                   /\ am[p[1]].assigned_drone # ""
                   /\ am[p[1]].assigned_drone = am[p[2]].assigned_drone
                   /\ datesOverlap(am[p[1]].start_date, am[p[1]].end_date,
                                   am[p[2]].start_date, am[p[2]].end_date))
    IN  Map(hit, LAMBDA p :
            Conflict("double_booking_drone", "error",
                     <<am[p[1]].assigned_drone, am[p[1]].project_id,
                       am[p[2]].project_id>>,
                     am[p[1]].project_id))

\* 3. Certification mismatch
ScanCertification(ps, am) ==
    LET hit == Filter(am, LAMBDA mission :
                   /\ mission.assigned_pilot # ""
                   /\ FindPilot(ps, mission.assigned_pilot) # 0
                   /\ ~hasCertifications(ps[FindPilot(ps, mission.assigned_pilot)],
                                         mission.required_certs))
    IN  Map(hit, LAMBDA mission :
            Conflict("certification_mismatch", "error",
                     <<ps[FindPilot(ps, mission.assigned_pilot)].pilot_id,
                       mission.project_id>>,
                     mission.project_id))

\* 4. Skill mismatch
ScanSkill(ps, am) ==
    LET hit == Filter(am, LAMBDA mission :
                   /\ mission.assigned_pilot # ""
                   /\ FindPilot(ps, mission.assigned_pilot) # 0
                   /\ ~hasSkills(ps[FindPilot(ps, mission.assigned_pilot)],
                                 mission.required_skills))
    IN  Map(hit, LAMBDA mission :
            Conflict("skill_mismatch", "warning",
                     <<ps[FindPilot(ps, mission.assigned_pilot)].pilot_id,
                       mission.project_id>>,
                     mission.project_id))

\* 5. Maintenance issues
ScanMaintenance(ds, am) ==
    LET hit == Filter(am, LAMBDA mission :
                   /\ mission.assigned_drone # ""
                   /\ FindDrone(ds, mission.assigned_drone) # 0
                   /\ ds[FindDrone(ds, mission.assigned_drone)].status = "Maintenance")
    IN  Map(hit, LAMBDA mission :
            Conflict("maintenance_issue", "error",
                     <<ds[FindDrone(ds, mission.assigned_drone)].drone_id,
                       mission.project_id>>,
                     mission.project_id))

\* 6. Location mismatch: per mission, the pilot's entry and then the drone's
ScanLocationOf(ps, ds, mission) ==
    LET pi == FindPilot(ps, mission.assigned_pilot)
        di == FindDrone(ds, mission.assigned_drone)
        pilotPart ==
            IF /\ mission.assigned_pilot # ""
               /\ pi # 0
               /\ toLowerCase(ps[pi].location) # toLowerCase(mission.location)
            THEN <<Conflict("location_mismatch", "warning",
                            <<ps[pi].pilot_id, mission.project_id>>,
                            mission.project_id)>>
            ELSE << >>
        dronePart ==
            IF /\ mission.assigned_drone # ""
               /\ di # 0
               /\ toLowerCase(ds[di].location) # toLowerCase(mission.location)
            THEN <<Conflict("location_mismatch", "warning",
                            <<ds[di].drone_id, mission.project_id>>,
                            mission.project_id)>>
            ELSE << >>
    IN  pilotPart \o dronePart

ScanLocation(ps, ds, am) ==
    Flatten(Map(am, LAMBDA mission : ScanLocationOf(ps, ds, mission)))

\* A scan that passes a pilot who is on leave.
ScanUnavailableOnly(ps, am) ==
    LET hit == Filter(am, LAMBDA mission :
                   /\ mission.assigned_pilot # ""
                   /\ FindPilot(ps, mission.assigned_pilot) # 0
                   /\ ps[FindPilot(ps, mission.assigned_pilot)].status = "Unavailable")
    IN  Map(hit, LAMBDA mission :
            Conflict("unavailable_pilot", "error",
                     <<ps[FindPilot(ps, mission.assigned_pilot)].pilot_id,
                       mission.project_id>>,
                     mission.project_id))

\* 7. Unavailable pilot assigned to mission
ScanUnavailable(ps, am) ==
    LET hit == Filter(am, LAMBDA mission :
                   /\ mission.assigned_pilot # ""
                   /\ FindPilot(ps, mission.assigned_pilot) # 0
                   /\ LET st == ps[FindPilot(ps, mission.assigned_pilot)].status
                      IN  st = "On Leave" \/ st = "Unavailable")
    IN  Map(hit, LAMBDA mission :
            Conflict("unavailable_pilot", "error",
                     <<ps[FindPilot(ps, mission.assigned_pilot)].pilot_id,
                       mission.project_id>>,
                     mission.project_id))

\* A scan that keeps its conflicts list between calls: the list of a second
\* call begins with the entries of the first.
detectAllConflictsAccumulating(ps, ds, ms) ==
    LET activeMissions == ActiveMissions(ms)
        found == ScanPilotDoubleBooking(activeMissions)
                    \o ScanDroneDoubleBooking(activeMissions)
                    \o ScanCertification(ps, activeMissions)
                    \o ScanSkill(ps, activeMissions)
                    \o ScanMaintenance(ds, activeMissions)
                    \o ScanLocation(ps, ds, activeMissions)
                    \o ScanUnavailable(ps, activeMissions)
    IN  IF call.name = "detectConflicts"
        THEN ret.conflict_details \o found
        ELSE found

detectAllConflicts(ps, ds, ms) ==
    LET activeMissions == ActiveMissions(ms)
    IN  ScanPilotDoubleBooking(activeMissions)
           \o ScanDroneDoubleBooking(activeMissions)
           \o ScanCertification(ps, activeMissions)
           \o ScanSkill(ps, activeMissions)
           \o ScanMaintenance(ds, activeMissions)
           \o ScanLocation(ps, ds, activeMissions)
           \o ScanUnavailable(ps, activeMissions)

-----------------------------------------------------------------------------
(* conflicts.ts: validatePilotAssignment / validateDroneAssignment *)

\* conflicts.some((c) => c.severity === 'error')
HasErrors(conflicts) == Some(conflicts, LAMBDA c : c.severity = "error")

\* The conflict pushed when the pilot or the mission is not found.
PilotNotFound(id) == Conflict("skill_mismatch", "error", <<id>>, Undefined)

\* The conflict pushed when the drone or the mission is not found.
DroneNotFound(id) == Conflict("maintenance_issue", "error", <<id>>, Undefined)

\* Check pilot status
CheckPilotStatus(pilot, pilotId, projectId) ==
    IF pilot.status = "On Leave" \/ pilot.status = "Unavailable"
    THEN <<Conflict("unavailable_pilot", "error", <<pilotId, projectId>>, projectId)>>
    ELSE << >>

\* Check skills
CheckSkills(pilot, mission, pilotId, projectId) ==
    IF ~hasSkills(pilot, mission.required_skills)
    THEN <<Conflict("skill_mismatch", "warning", <<pilotId, projectId>>, projectId)>>
    ELSE << >>

\* Check certifications
CheckCertifications(pilot, mission, pilotId, projectId) ==
    IF ~hasCertifications(pilot, mission.required_certs)
    THEN <<Conflict("certification_mismatch", "error", <<pilotId, projectId>>,
                    projectId)>>
    ELSE << >>

\* Check location (pilot or drone)
CheckLocation(resource, mission, resourceId, projectId) ==
    IF toLowerCase(resource.location) # toLowerCase(mission.location)
    THEN <<Conflict("location_mismatch", "warning", <<resourceId, projectId>>,
                    projectId)>>
    ELSE << >>

\* A filter that keeps the target mission among the pilot's missions.
PilotMissionsWithTarget(ms, pilotId, projectId) ==
    Filter(ms, LAMBDA m : m.assigned_pilot = pilotId /\ IsActiveOrPlanned(m))

\* Check for overlapping assignments of the pilot
PilotMissions(ms, pilotId, projectId) ==
    Filter(ms, LAMBDA m :
        /\ m.assigned_pilot = pilotId
        /\ m.project_id # projectId
        /\ IsActiveOrPlanned(m))

\* A validator that does not look at the pilot's other missions.
PilotOverlapsUnseen(ms, mission, pilotId, projectId) == << >>

PilotOverlaps(ms, mission, pilotId, projectId) ==
    LET pilotMissions == PilotMissions(ms, pilotId, projectId)
        hit == Filter(pilotMissions, LAMBDA existing :
            datesOverlap(mission.start_date, mission.end_date,
                         existing.start_date, existing.end_date))
    IN  Map(hit, LAMBDA existing :
            Conflict("double_booking_pilot", "error",
                     <<pilotId, projectId, existing.project_id>>, projectId))

\* The checks run once the pilot and the mission are found, up to the second
\* getMissions() call.
PilotChecks(pilot, mission, pilotId, projectId) ==
    CheckPilotStatus(pilot, pilotId, projectId)
       \o CheckSkills(pilot, mission, pilotId, projectId)
       \o CheckCertifications(pilot, mission, pilotId, projectId)
       \o CheckLocation(pilot, mission, pilotId, projectId)

\* A result that is valid only without any conflict.
ValidationResultNoConflict(conflicts) ==
    [valid |-> conflicts = << >>, conflicts |-> conflicts]

\* return { valid: !hasErrors, conflicts }
ValidationResult(conflicts) ==
    [valid |-> ~HasErrors(conflicts), conflicts |-> conflicts]

\* A validator that goes on to the mission when the pilot is not found.
validatePilotAssignmentBoth(ps, ms, pilotId, projectId) ==
    LET pi == FindPilot(ps, pilotId)
        mi == FindMission(ms, projectId)
    IN  IF pi = 0 \/ mi = 0
        THEN [valid |-> FALSE,
              conflicts |-> (IF pi = 0 THEN <<PilotNotFound(pilotId)>> ELSE << >>)
                         \o (IF mi = 0 THEN <<PilotNotFound(projectId)>> ELSE << >>)]
        ELSE ValidationResult(
                 PilotChecks(ps[pi], ms[mi], pilotId, projectId)
                    \o PilotOverlaps(ms, ms[mi], pilotId, projectId))

validatePilotAssignment(ps, ms, pilotId, projectId) ==
    LET pi == FindPilot(ps, pilotId)
        mi == FindMission(ms, projectId)
    IN  IF pi = 0
        THEN [valid |-> FALSE, conflicts |-> <<PilotNotFound(pilotId)>>]
        ELSE IF mi = 0
        THEN [valid |-> FALSE, conflicts |-> <<PilotNotFound(projectId)>>]
        ELSE ValidationResult(
                 PilotChecks(ps[pi], ms[mi], pilotId, projectId)
                    \o PilotOverlaps(ms, ms[mi], pilotId, projectId))

\* Check drone status
CheckDroneStatus(drone, droneId, projectId) ==
    IF drone.status = "Maintenance"
    THEN <<Conflict("maintenance_issue", "error", <<droneId, projectId>>, projectId)>>
    ELSE << >>

\* Check for overlapping assignments of the drone
DroneOverlaps(ms, mission, droneId, projectId) ==
    LET droneMissions == Filter(ms, LAMBDA m :
            /\ m.assigned_drone = droneId
            /\ m.project_id # projectId
            /\ IsActiveOrPlanned(m))
        hit == Filter(droneMissions, LAMBDA existing :
            datesOverlap(mission.start_date, mission.end_date,
                         existing.start_date, existing.end_date))
    IN  Map(hit, LAMBDA existing :
            Conflict("double_booking_drone", "error",
                     <<droneId, projectId, existing.project_id>>, projectId))

validateDroneAssignment(ds, ms, droneId, projectId) ==
    LET di == FindDrone(ds, droneId)
        mi == FindMission(ms, projectId)
    IN  IF di = 0
        THEN [valid |-> FALSE, conflicts |-> <<DroneNotFound(droneId)>>]
        ELSE IF mi = 0
        THEN [valid |-> FALSE, conflicts |-> <<DroneNotFound(projectId)>>]
        ELSE ValidationResult(
                 CheckDroneStatus(ds[di], droneId, projectId)
                    \o CheckLocation(ds[di], ms[mi], droneId, projectId)
                    \o DroneOverlaps(ms, ms[mi], droneId, projectId))


-----------------------------------------------------------------------------
(* conflicts.ts: findBestPilotForMission / findBestDroneForMission *)

\* Array.prototype.sort with the comparator (a, b) => Key(a) - Key(b): the
\* sort is stable, so an element comes after the elements with a smaller
\* key and after the earlier elements with the same key.
SortByKey(s, Key(_)) ==
    LET Rank(i) == Cardinality({j \in 1..Len(s) :
                       \/ Key(s[j]) < Key(s[i])
                       \/ Key(s[j]) = Key(s[i]) /\ j < i}) + 1
    IN  [r \in 1..Len(s) |-> s[CHOOSE i \in 1..Len(s) : Rank(i) = r]]

\* A status term that charges a pilot who is off duty what an overlap costs.
PilotStatusScoreLenient(pilot, mission, ms) ==
    IF pilot.status = "Available"
    THEN [score |-> 30, issues |-> << >>]
    ELSE IF pilot.status = "Assigned"
    THEN [score |-> 20, issues |-> << >>]
    ELSE [score |-> -50, issues |-> <<<<"Status", pilot.status>>>>]

\* A status term that does not look at the missions of an assigned pilot.
PilotStatusScoreIdle(pilot, mission, ms) ==
    IF pilot.status = "Available"
    THEN [score |-> 30, issues |-> << >>]
    ELSE IF pilot.status = "Assigned"
    THEN [score |-> 20, issues |-> << >>]
    ELSE [score |-> -100, issues |-> <<<<"Status", pilot.status>>>>]

\* The status term of a pilot's score and its issue.
PilotStatusScore(pilot, mission, ms) ==
    IF pilot.status = "Available"
    THEN [score |-> 30, issues |-> << >>]
    ELSE IF pilot.status = "Assigned"
    THEN LET existing == Filter(ms, LAMBDA m :
                 m.assigned_pilot = pilot.pilot_id /\ IsActiveOrPlanned(m))
             hasOverlap == Some(existing, LAMBDA m :
                 datesOverlap(mission.start_date, mission.end_date,
                              m.start_date, m.end_date))
         IN  IF hasOverlap
             THEN [score |-> -50, issues |-> <<<<"Has overlapping assignment">>>>]
             ELSE [score |-> 20, issues |-> << >>]
    ELSE [score |-> -100, issues |-> <<<<"Status", pilot.status>>>>]

\* required.filter((s) => !held.some((h) => h.toLowerCase() === s.toLowerCase()))
Missing(held, required) ==
    Filter(required, LAMBDA r :
        ~Some(held, LAMBDA h : toLowerCase(h) = toLowerCase(r)))

ScorePilot(pilot, mission, ms) ==
    LET status == PilotStatusScore(pilot, mission, ms)
        skillMatch == hasSkills(pilot, mission.required_skills)
        certMatch == hasCertifications(pilot, mission.required_certs)
        locMatch == toLowerCase(pilot.location) = toLowerCase(mission.location)
    IN  [pilot |-> pilot,
         score |-> status.score
                     + (IF skillMatch THEN 25 ELSE -20)
                     + (IF certMatch THEN 25 ELSE -30)
                     + (IF locMatch THEN 20 ELSE -10),
         issues |-> status.issues
                     \o (IF skillMatch THEN << >>
                         ELSE <<<<"Missing skills",
                                 Missing(pilot.skills, mission.required_skills)>>>>)
                     \o (IF certMatch THEN << >>
                         ELSE <<<<"Missing certs",
                                 Missing(pilot.certifications,
                                         mission.required_certs)>>>>)
                     \o (IF locMatch THEN << >>
                         ELSE <<<<"Location", pilot.location, mission.location>>>>)]

\* A scorer whose sort puts the later of two equal scores first.
findBestPilotForMissionLastFirst(ps, ms, projectId) ==
    LET mi == FindMission(ms, projectId)
        scored == Map(ps, LAMBDA pilot : ScorePilot(pilot, ms[mi], ms))
    IN  IF mi = 0
        THEN << >>
        ELSE SortByKey([k \in 1..Len(scored) |-> scored[Len(scored) + 1 - k]],
                       LAMBDA x : -x.score)

findBestPilotForMission(ps, ms, projectId) ==
    LET mi == FindMission(ms, projectId)
    IN  IF mi = 0
        THEN << >>
        ELSE SortByKey(Map(ps, LAMBDA pilot : ScorePilot(pilot, ms[mi], ms)),
                       LAMBDA x : -x.score)

\* A status term that takes a deployed drone for a free one.
DroneStatusScoreFree(drone, mission, ms) ==
    IF drone.status = "Available" \/ drone.status = "Deployed"
    THEN [score |-> 30, issues |-> << >>]
    ELSE [score |-> -100, issues |-> <<<<"Status", drone.status>>>>]

\* The status term of a drone's score and its issue.
DroneStatusScore(drone, mission, ms) ==
    IF drone.status = "Available"
    THEN [score |-> 30, issues |-> << >>]
    ELSE IF drone.status = "Deployed"
    THEN LET existing == Filter(ms, LAMBDA m :
                 m.assigned_drone = drone.drone_id /\ IsActiveOrPlanned(m))
             hasOverlap == Some(existing, LAMBDA m :
                 datesOverlap(mission.start_date, mission.end_date,
                              m.start_date, m.end_date))
         IN  IF hasOverlap
             THEN [score |-> -50, issues |-> <<<<"Has overlapping deployment">>>>]
             ELSE [score |-> 15, issues |-> << >>]
    ELSE [score |-> -100, issues |-> <<<<"Status", drone.status>>>>]

ScoreDrone(drone, mission, ms) ==
    LET status == DroneStatusScore(drone, mission, ms)
        locMatch == toLowerCase(drone.location) = toLowerCase(mission.location)
        Needs(token) == Some(mission.required_skills,
                             LAMBDA sk : toLowerCase(sk) = token)
        Can(token) == Some(drone.capabilities, LAMBDA c : toLowerCase(c) = token)
        missionNeedsThermal == Needs("thermal")
        missionNeedsMapping == Needs("mapping") \/ Needs("survey")
        dueBefore == Date(drone.maintenance_due) <= Date(mission.end_date)
    IN  [drone |-> drone,
         score |-> status.score
                     + (IF locMatch THEN 30 ELSE -15)
                     + (IF missionNeedsThermal /\ Can("thermal") THEN 20
                        ELSE IF missionNeedsThermal THEN -15 ELSE 0)
                     + (IF missionNeedsMapping /\ Can("lidar") THEN 20
                        ELSE IF missionNeedsMapping /\ Can("rgb") THEN 10 ELSE 0)
                     + (IF dueBefore THEN -10 ELSE 0),
         issues |-> status.issues
                     \o (IF locMatch THEN << >>
                         ELSE <<<<"Location", drone.location, mission.location>>>>)
                     \o (IF missionNeedsThermal /\ ~Can("thermal")
                         THEN <<<<"No thermal capability">>>> ELSE << >>)
                     \o (IF dueBefore
                         THEN <<<<"Maintenance due", drone.maintenance_due>>>>
                         ELSE << >>)]

findBestDroneForMission(ds, ms, projectId) ==
    LET mi == FindMission(ms, projectId)
    IN  IF mi = 0
        THEN << >>
        ELSE SortByKey(Map(ds, LAMBDA drone : ScoreDrone(drone, ms[mi], ms)),
                       LAMBDA x : -x.score)

-----------------------------------------------------------------------------
(* dataStore.ts: update operations *)

\* if (updates.field): the field is given and is not the empty string
Truthy(x) == x # Undefined /\ x # ""

\* if (updates.available_from), if (updates.maintenance_due): a date is given.
\* Dates are day numbers from 1, and an absent date is written 0.
TruthyDate(day) == day > 0

\* An update that takes an empty current_assignment for an absent one.
updatePilotStatusKeeping(ps, pilotId, updates) ==
    LET index == FindPilot(ps, pilotId)
    IN  IF index = 0
        THEN [success |-> FALSE, pilots |-> ps]
        ELSE [success |-> TRUE,
              pilots |-> [ps EXCEPT
                  ![index].status =
                      IF Truthy(updates.status) THEN updates.status ELSE @,
                  ![index].current_assignment =
                      IF Truthy(updates.current_assignment)
                      THEN updates.current_assignment ELSE @,
                  ![index].available_from =
                      IF TruthyDate(updates.available_from)
                      THEN updates.available_from ELSE @,
                  ![index].location =
                      IF Truthy(updates.location) THEN updates.location ELSE @]]

updatePilotStatus(ps, pilotId, updates) ==
    LET index == FindPilot(ps, pilotId)
    IN  IF index = 0
        THEN [success |-> FALSE, pilots |-> ps]
        ELSE [success |-> TRUE,
              pilots |-> [ps EXCEPT
                  ![index].status =
                      IF Truthy(updates.status) THEN updates.status ELSE @,
                  ![index].current_assignment =
                      IF updates.current_assignment # Undefined
                      THEN updates.current_assignment ELSE @,
                  ![index].available_from =
                      IF TruthyDate(updates.available_from)
                      THEN updates.available_from ELSE @,
                  ![index].location =
                      IF Truthy(updates.location) THEN updates.location ELSE @]]

updateDroneStatus(ds, droneId, updates) ==
    LET index == FindDrone(ds, droneId)
    IN  IF index = 0
        THEN [success |-> FALSE, drones |-> ds]
        ELSE [success |-> TRUE,
              drones |-> [ds EXCEPT
                  ![index].status =
                      IF Truthy(updates.status) THEN updates.status ELSE @,
                  ![index].current_assignment =
                      IF updates.current_assignment # Undefined
                      THEN updates.current_assignment ELSE @,
                  ![index].location =
                      IF Truthy(updates.location) THEN updates.location ELSE @,
                  ![index].maintenance_due =
                      IF TruthyDate(updates.maintenance_due)
                      THEN updates.maintenance_due ELSE @]]

updateMissionStatus(ms, projectId, updates) ==
    LET index == FindMission(ms, projectId)
    IN  IF index = 0
        THEN [success |-> FALSE, missions |-> ms]
        ELSE [success |-> TRUE,
              missions |-> [ms EXCEPT
                  ![index].assigned_pilot =
                      IF updates.assigned_pilot # Undefined
                      THEN updates.assigned_pilot ELSE @,
                  ![index].assigned_drone =
                      IF updates.assigned_drone # Undefined
                      THEN updates.assigned_drone ELSE @,
                  ![index].mission_status =
                      IF Truthy(updates.mission_status)
                      THEN updates.mission_status ELSE @]]

\* The updates objects the tools of route.ts pass.
ResourceUpdates(status, assignment) ==
    [status |-> status, current_assignment |-> assignment, location |-> Undefined,
     available_from |-> 0, maintenance_due |-> 0]

MissionUpdates(pilot, drone, status) ==
    [assigned_pilot |-> pilot, assigned_drone |-> drone, mission_status |-> status]

-----------------------------------------------------------------------------
(* route.ts: the assignment tools, each from its parameters and the store  *)
(* to the store it leaves and the result it returns                        *)

Warnings(conflicts) == Filter(conflicts, LAMBDA c : c.severity = "warning")

\* A tool that a warning blocks as an error does.
BlockedOnAny(validation, force) == validation.conflicts # << >> /\ ~force

\* if (!validation.valid && !params.force) return { success: false, ... }
Blocked(validation, force) == ~validation.valid /\ ~force

assignPilotToMission(ps, ds, ms, pilot_id, project_id, force) ==
    LET validation == validatePilotAssignment(ps, ms, pilot_id, project_id)
        pilotResult == updatePilotStatus(ps, pilot_id,
                           ResourceUpdates("Assigned", project_id))
        missionResult == updateMissionStatus(ms, project_id,
                             MissionUpdates(pilot_id, Undefined, "Active"))
    IN  IF Blocked(validation, force)
        THEN [pilots |-> ps, drones |-> ds, missions |-> ms,
              ret |-> [success |-> FALSE, conflicts |-> validation.conflicts]]
        ELSE [pilots |-> pilotResult.pilots, drones |-> ds,
              missions |-> missionResult.missions,
              ret |-> [success |-> TRUE,
                       resource_updated |-> pilotResult.success,
                       mission_updated |-> missionResult.success,
                       warnings |-> Warnings(validation.conflicts)]]

assignDroneToMission(ps, ds, ms, drone_id, project_id, force) ==
    LET validation == validateDroneAssignment(ds, ms, drone_id, project_id)
        droneResult == updateDroneStatus(ds, drone_id,
                           ResourceUpdates("Deployed", project_id))
        missionResult == updateMissionStatus(ms, project_id,
                             MissionUpdates(Undefined, drone_id, Undefined))
    IN  IF Blocked(validation, force)
        THEN [pilots |-> ps, drones |-> ds, missions |-> ms,
              ret |-> [success |-> FALSE, conflicts |-> validation.conflicts]]
        ELSE [pilots |-> ps, drones |-> droneResult.drones,
              missions |-> missionResult.missions,
              ret |-> [success |-> TRUE,
                       resource_updated |-> droneResult.success,
                       mission_updated |-> missionResult.success,
                       warnings |-> Warnings(validation.conflicts)]]

unassignFromMission(ps, ds, ms, project_id, unassign_pilot, unassign_drone) ==
    LET mi == FindMission(ms, project_id)
        mission == ms[mi]
        freePilot == unassign_pilot /\ mission.assigned_pilot # ""
        freeDrone == unassign_drone /\ mission.assigned_drone # ""
    IN  IF mi = 0
        THEN [pilots |-> ps, drones |-> ds, missions |-> ms,
              ret |-> [success |-> FALSE, error |-> "Mission not found"]]
        ELSE [pilots |-> IF freePilot
                         THEN updatePilotStatus(ps, mission.assigned_pilot,
                                  ResourceUpdates("Available", "")).pilots
                         ELSE ps,
              drones |-> IF freeDrone
                         THEN updateDroneStatus(ds, mission.assigned_drone,
                                  ResourceUpdates("Available", "")).drones
                         ELSE ds,
              missions |-> updateMissionStatus(ms, project_id,
                               MissionUpdates(
                                   IF unassign_pilot THEN "" ELSE Undefined,
                                   IF unassign_drone THEN "" ELSE Undefined,
                                   Undefined)).missions,
              ret |-> [success |-> TRUE,
                       pilot_freed |-> IF freePilot THEN mission.assigned_pilot
                                       ELSE Undefined,
                       drone_freed |-> IF freeDrone THEN mission.assigned_drone
                                       ELSE Undefined]]

\* A null tool parameter.
Null == "null"

\* if (params.pilot_id): the parameter is neither null nor empty
Given(id) == id # Null /\ id # ""

\* const priorityOrder = { Urgent: 0, High: 1, Standard: 2 }
priorityOrder(priority) ==
    CASE priority = "Urgent" -> 0
      [] priority = "High" -> 1
      [] priority = "Standard" -> 2

\* viable.slice(0, 3)
Slice3(s) == SubSeq(s, 1, IF Len(s) < 3 THEN Len(s) ELSE 3)

\* The missions a trigger affects, by priority.
AffectedByPilot(allMissions, pilot_id) ==
    SortByKey(Filter(allMissions, LAMBDA m :
                  m.assigned_pilot = pilot_id /\ IsActiveOrPlanned(m)),
              LAMBDA m : priorityOrder(m.priority))

\* An impact assessment that takes the drone's missions of every status.
AffectedByDroneAnyStatus(allMissions, drone_id) ==
    SortByKey(Filter(allMissions, LAMBDA m : m.assigned_drone = drone_id),
              LAMBDA m : priorityOrder(m.priority))

AffectedByDrone(allMissions, drone_id) ==
    SortByKey(Filter(allMissions, LAMBDA m :
                  m.assigned_drone = drone_id /\ IsActiveOrPlanned(m)),
              LAMBDA m : priorityOrder(m.priority))

\* An entry that offers the triggered pilot as well.
PilotOptionsWithTrigger(ps, ms, mission, pilot_id) ==
    LET viable == Filter(findBestPilotForMission(ps, ms, mission.project_id),
                         LAMBDA m : m.score > 0)
    IN  [mission |-> mission.project_id, priority |-> mission.priority,
         kind |-> "replacements",
         replacements |-> Map(Slice3(viable), LAMBDA m :
             [id |-> m.pilot.pilot_id, score |-> m.score, issues |-> m.issues]),
         no_replacement |-> Len(viable) = 0]

\* The reassignment_options entry of one affected mission.
PilotOptions(ps, ms, mission, pilot_id) ==
    LET viable == Filter(findBestPilotForMission(ps, ms, mission.project_id),
                         LAMBDA m : m.score > 0 /\ m.pilot.pilot_id # pilot_id)
    IN  [mission |-> mission.project_id, priority |-> mission.priority,
         kind |-> "replacements",
         replacements |-> Map(Slice3(viable), LAMBDA m :
             [id |-> m.pilot.pilot_id, score |-> m.score, issues |-> m.issues]),
         no_replacement |-> Len(viable) = 0]

DroneOptions(ds, ms, mission, drone_id) ==
    LET viable == Filter(findBestDroneForMission(ds, ms, mission.project_id),
                         LAMBDA m : m.score > 0 /\ m.drone.drone_id # drone_id)
    IN  [mission |-> mission.project_id, priority |-> mission.priority,
         kind |-> "drone_replacements",
         replacements |-> Map(Slice3(viable), LAMBDA m :
             [id |-> m.drone.drone_id, score |-> m.score, issues |-> m.issues]),
         no_replacement |-> Len(viable) = 0]

handleUrgentReassignment(ps, ds, ms, pilot_id, drone_id, auto_mark_unavailable) ==
    LET allMissions == ms
        ps1 == IF auto_mark_unavailable /\ Given(pilot_id)
               THEN updatePilotStatus(ps, pilot_id,
                        ResourceUpdates("Unavailable", "")).pilots
               ELSE ps
        ds1 == IF auto_mark_unavailable /\ Given(drone_id)
               THEN updateDroneStatus(ds, drone_id,
                        ResourceUpdates("Maintenance", "")).drones
               ELSE ds
        byPilot == IF Given(pilot_id) THEN AffectedByPilot(allMissions, pilot_id)
                   ELSE << >>
        byDrone == IF Given(drone_id) THEN AffectedByDrone(allMissions, drone_id)
                   ELSE << >>
        affectedMissions ==
            Map(byPilot, LAMBDA m : [project_id |-> m.project_id,
                                     priority |-> m.priority])
            \o Map(Filter(byDrone, LAMBDA m :
                       ~Some(byPilot, LAMBDA am : am.project_id = m.project_id)),
                   LAMBDA m : [project_id |-> m.project_id, priority |-> m.priority])
    IN  [pilots |-> ps1, drones |-> ds1, missions |-> ms,
         ret |-> [marked_unavailable |-> auto_mark_unavailable,
                  affected_missions |-> affectedMissions,
                  reassignment_options |->
                      Map(byPilot, LAMBDA m : PilotOptions(ps1, ms, m, pilot_id))
                      \o Map(byDrone, LAMBDA m : DroneOptions(ds1, ms, m, drone_id))]]

-----------------------------------------------------------------------------
(* The fleets of the model *)

Pilot(id, skills, certs, location, status, assignment) ==
    [pilot_id |-> id, skills |-> skills, certifications |-> certs,
     location |-> location, status |-> status, current_assignment |-> assignment,
     available_from |-> 1]

Drone(id, capabilities, status, location, assignment, due) ==
    [drone_id |-> id, capabilities |-> capabilities, status |-> status,
     location |-> location, current_assignment |-> assignment,
     maintenance_due |-> due]

Mission(id, location, skills, certs, start, end, priority, pilot, drone, status) ==
    [project_id |-> id, location |-> location, required_skills |-> skills,
     required_certs |-> certs, start_date |-> start, end_date |-> end,
     priority |-> priority, assigned_pilot |-> pilot, assigned_drone |-> drone,
     mission_status |-> status]

\* start_date <= end_date within the days of the model
DateRanges == {r \in (1..MaxDay) \X (1..MaxDay) : r[1] <= r[2]}

\* The records of the model's fleets.  Their fixed fields differ from record
\* to record the way the seed data's do: P1 covers M1 in full and M3 but for
\* the city; P2 writes its tokens in lower case, covers M2 but for one
\* certification and M1 but for the skill and the city.
PilotP1(status) ==
    Pilot("P1", <<"Mapping", "Survey">>, <<"DGCA", "Night Ops">>, "Bangalore",
          status, "")

PilotP2(status) == Pilot("P2", <<"inspection">>, <<"dgca">>, "mumbai", status, "")

DroneD1(status) == Drone("D1", <<"LiDAR", "RGB">>, status, "Bangalore", "", 2)

DroneD2(status) == Drone("D2", <<"Thermal">>, status, "mumbai", "", 1)

MissionM1(range, pilot, drone, status) ==
    Mission("M1", "Bangalore", <<"mapping">>, <<"DGCA">>, range[1], range[2],
            "High", pilot, drone, status)

MissionM2(range, pilot, drone, status) ==
    Mission("M2", "Mumbai", <<"Inspection">>, <<"DGCA", "Night Ops">>,
            range[1], range[2], "Urgent", pilot, drone, status)

MissionM3(range, pilot, drone, status) ==
    Mission("M3", "Delhi", << >>, << >>, range[1], range[2], "Standard",
            pilot, drone, status)

-----------------------------------------------------------------------------
(* dataStore.ts and googleSheets.ts: loading the store, the re-sync after  *)
(* five minutes and the write-back of one row.  A sheet is the sequence of *)
(* its data rows (the header row is left out), a row is a record of its    *)
(* cells by column, and a cell that joins a list with ', ' is the sequence  *)
(* of its tokens: no token of the model holds a comma or outer blanks.      *)

\* dataStore.ts 126: if (elapsed < 5 * 60 * 1000), in minutes
ResyncAfter == 5

\* googleSheets.ts 129: an empty reference is written as a dash
Dash == "-"

\* cleanField: an absent cell, a dash and 'undefined' read as ''
cleanField(field) ==
    IF field \in {"", Dash, "undefined"} THEN "" ELSE field

\* parseCSVField: split(','), trim, filter(Boolean)
parseCSVField(field) == Filter(field, LAMBDA token : token # "")

pilotToRow(pilot) ==
    [pilot EXCEPT !.current_assignment = IF @ = "" THEN Dash ELSE @]

droneToRow(drone) ==
    [drone EXCEPT !.current_assignment = IF @ = "" THEN Dash ELSE @]

missionToRow(mission) ==
    [mission EXCEPT !.assigned_pilot = IF @ = "" THEN Dash ELSE @,
                    !.assigned_drone = IF @ = "" THEN Dash ELSE @]

\* cleanField(cell) || fallback
CellOr(cell, fallback) ==
    IF cleanField(cell) = "" THEN fallback ELSE cleanField(cell)

readPilotsFromSheet(rows) ==
    Map(rows, LAMBDA row :
        [pilot_id |-> CellOr(row.pilot_id, ""),
         skills |-> parseCSVField(row.skills),
         certifications |-> parseCSVField(row.certifications),
         location |-> CellOr(row.location, ""),
         status |-> CellOr(row.status, "Available"),
         current_assignment |-> cleanField(row.current_assignment),
         available_from |-> row.available_from])

readDronesFromSheet(rows) ==
    Map(rows, LAMBDA row :
        [drone_id |-> CellOr(row.drone_id, ""),
         capabilities |-> parseCSVField(row.capabilities),
         status |-> CellOr(row.status, "Available"),
         location |-> CellOr(row.location, ""),
         current_assignment |-> cleanField(row.current_assignment),
         maintenance_due |-> row.maintenance_due])

readMissionsFromSheet(rows) ==
    Map(rows, LAMBDA row :
        [project_id |-> CellOr(row.project_id, ""),
         location |-> CellOr(row.location, ""),
         required_skills |-> parseCSVField(row.required_skills),
         required_certs |-> parseCSVField(row.required_certs),
         start_date |-> row.start_date,
         end_date |-> row.end_date,
         priority |-> CellOr(row.priority, "Standard"),
         assigned_pilot |-> cleanField(row.assigned_pilot),
         assigned_drone |-> cleanField(row.assigned_drone),
         mission_status |-> CellOr(row.mission_status, "Planned")])

\* updatePilotRow, updateDroneRow, updateMissionRow: one row is overwritten.
UpdateRow(rows, row, index) == [rows EXCEPT ![index] = row]

\* isGoogleSheetsConfigured() is false: there is no spreadsheet.
NoSheets == [configured |-> FALSE, pilots |-> << >>, drones |-> << >>,
             missions |-> << >>]

\* SEED_PILOTS, SEED_DRONES, SEED_MISSIONS with their built-in conflict: the
\* pilot of the active mission lacks one of its certifications.
SeedPilots ==
    <<PilotP1("Available"),
      [PilotP2("Assigned") EXCEPT !.current_assignment = "M2"]>>

SeedDrones == <<DroneD1("Available")>>

SeedMissions == <<MissionM2(<<1, 1>>, "P2", "", "Active")>>

\* let initialized = false; let lastSyncTime = null, at time 0.  The time of
\* the last load is a sequence: empty for null.
NotSynced == [initialized |-> FALSE, lastSyncTime |-> << >>, now |-> 0]

\* The store was loaded at time 0 and the clock stands still: the state of
\* the specifications whose calls all fall within five minutes of the load.
Synced == [initialized |-> TRUE, lastSyncTime |-> <<0>>, now |-> 0]

\* if (initialized && lastSyncTime) { elapsed < 5 minutes: return cached }
Cached(sy) ==
    /\ sy.initialized
    /\ sy.lastSyncTime # << >>
    /\ sy.now - sy.lastSyncTime[1] < ResyncAfter

\* initializeData: the records, the sync state and the source it returns.
\* readOk: the three reads of the spreadsheet all succeed.
initializeData(sy, sh, ps, ds, ms, readOk) ==
    LET loaded == [sy EXCEPT !.initialized = TRUE, !.lastSyncTime = <<sy.now>>]
    IN  IF Cached(sy)
        THEN [pilots |-> ps, drones |-> ds, missions |-> ms, sync |-> sy,
              source |-> IF sh.configured THEN "google_sheets_cached"
                         ELSE "local_cached"]
        ELSE IF sh.configured /\ readOk
        THEN [pilots |-> readPilotsFromSheet(sh.pilots),
              drones |-> readDronesFromSheet(sh.drones),
              missions |-> readMissionsFromSheet(sh.missions),
              sync |-> loaded, source |-> "google_sheets"]
        ELSE [pilots |-> SeedPilots, drones |-> SeedDrones,
              missions |-> SeedMissions, sync |-> loaded,
              source |-> IF sh.configured THEN "seed_data_fallback"
                         ELSE "seed_data"]

\* forceSync: initialized = false; lastSyncTime = null; initializeData()
forceSync(sy, sh, ps, ds, ms, readOk) ==
    initializeData([sy EXCEPT !.initialized = FALSE, !.lastSyncTime = << >>],
                   sh, ps, ds, ms, readOk)

\* Who is assigned to M1, M2, M3: every choice of pilots with the drones
\* fixed, and every choice of drones with the pilots fixed.
QueryAssignments ==
    {[pilot |-> p, drone |-> <<"D2", "", "D1">>] :
        p \in {"", "P1", "P2"} \X {"", "P1", "P2"} \X {"", "P1", "P2"}}
    \cup
    {[pilot |-> <<"P1", "P2", "">>, drone |-> d] :
        d \in {"", "D1", "D2"} \X {"", "D1", "D2"} \X {"", "D1", "D2"}}

QueryPilotStatus == {<<"Available", "Unavailable">>, <<"On Leave", "Assigned">>}

QueryDroneStatus == {<<"Available", "Maintenance">>, <<"Maintenance", "Deployed">>}

QueryMissionStatus ==
    {"Planned", "Completed"} \X {"Active", "Cancelled"} \X {"Active", "Completed"}

InitQuery ==
    /\ \E a \in QueryAssignments, s \in QueryPilotStatus, t \in QueryDroneStatus :
         /\ a.drone # <<"D2", "", "D1">> => s = <<"Available", "Unavailable">>
         /\ a.drone = <<"D2", "", "D1">> => t = <<"Available", "Maintenance">>
         /\ pilots = <<PilotP1(s[1]), PilotP2(s[2])>>
         /\ drones = <<DroneD1(t[1]), DroneD2(t[2])>>
         /\ \E r \in DateRanges \X DateRanges \X DateRanges,
               st \in QueryMissionStatus :
              missions = <<MissionM1(r[1], a.pilot[1], a.drone[1], st[1]),
                           MissionM2(r[2], a.pilot[2], a.drone[2], st[2]),
                           MissionM3(r[3], a.pilot[3], a.drone[3], st[3])>>
    /\ call = [name |-> "idle"]
    /\ ret = [none |-> TRUE]
    /\ inv = << >>
    /\ sync = Synced
    /\ sheets = NoSheets

PilotIdsOf(ps) == {ps[k].pilot_id : k \in 1..Len(ps)}
DroneIdsOf(ds) == {ds[k].drone_id : k \in 1..Len(ds)}
MissionIdsOf(ms) == {ms[k].project_id : k \in 1..Len(ms)}

-----------------------------------------------------------------------------
(* SpecQuery: one call of a read-only function of conflicts.ts on a fleet *)

\* No tool call is in progress.
Idle == call.name = "idle"

DetectAllConflicts ==
    /\ Idle
    /\ call' = [name |-> "detectAllConflicts"]
    /\ ret' = [conflicts |-> detectAllConflicts(pilots, drones, missions)]
    /\ UNCHANGED <<pilots, drones, missions, inv, sync, sheets>>

ValidatePilotAssignment ==
    /\ Idle
    /\ \E pilotId \in PilotIdsOf(pilots) \cup {"P0"},
          projectId \in MissionIdsOf(missions) \cup {"M0"} :
        /\ call' = [name |-> "validatePilotAssignment", pilot_id |-> pilotId,
                    project_id |-> projectId]
        /\ ret' = validatePilotAssignment(pilots, missions, pilotId, projectId)
    /\ UNCHANGED <<pilots, drones, missions, inv, sync, sheets>>

ValidateDroneAssignment ==
    /\ Idle
    /\ \E droneId \in DroneIdsOf(drones) \cup {"D0"},
          projectId \in MissionIdsOf(missions) \cup {"M0"} :
        /\ call' = [name |-> "validateDroneAssignment", drone_id |-> droneId,
                    project_id |-> projectId]
        /\ ret' = validateDroneAssignment(drones, missions, droneId, projectId)
    /\ UNCHANGED <<pilots, drones, missions, inv, sync, sheets>>

NextQuery == DetectAllConflicts \/ ValidatePilotAssignment \/ ValidateDroneAssignment

SpecQuery == InitQuery /\ [][NextQuery]_vars

-----------------------------------------------------------------------------
(* SpecNoForce: the tools of route.ts, one call at a time, never forced *)

\* The ranges at the ends of the model's days and the one that spans them.
CornerRanges == {<<1, 1>>, <<1, MaxDay>>, <<MaxDay, MaxDay>>}

\* The fleets the tools start from: nobody is assigned yet.
InitTools ==
    /\ \E s \in {"Available", "On Leave"} :
         pilots = <<PilotP1("Available"), PilotP2(s)>>
    /\ drones = <<DroneD1("Available"), DroneD2("Available")>>
    /\ \E r \in CornerRanges, st \in {"Planned", "Cancelled"} :
         missions = <<MissionM1(r, "", "", "Planned"), MissionM2(<<1, 1>>, "", "", st)>>
    /\ call = [name |-> "idle"]
    /\ ret = [none |-> TRUE]
    /\ inv = << >>
    /\ sync = Synced
    /\ sheets = NoSheets

\* A tool leaves the store and the result it computed.
Leave(out) ==
    /\ pilots' = out.pilots
    /\ drones' = out.drones
    /\ missions' = out.missions
    /\ ret' = out.ret
    /\ UNCHANGED <<inv, sync, sheets>>

AssignPilotToMission(forces) ==
    /\ Idle
    /\ \E pilot_id \in PilotIdsOf(pilots) \cup {"P0"},
          project_id \in MissionIdsOf(missions) \cup {"M0"},
          force \in forces :
        /\ call' = [name |-> "assignPilotToMission", pilot_id |-> pilot_id,
                    project_id |-> project_id, force |-> force]
        /\ Leave(assignPilotToMission(pilots, drones, missions,
                                      pilot_id, project_id, force))

AssignDroneToMission(forces) ==
    /\ Idle
    /\ \E drone_id \in DroneIdsOf(drones) \cup {"D0"},
          project_id \in MissionIdsOf(missions) \cup {"M0"},
          force \in forces :
        /\ call' = [name |-> "assignDroneToMission", drone_id |-> drone_id,
                    project_id |-> project_id, force |-> force]
        /\ Leave(assignDroneToMission(pilots, drones, missions,
                                      drone_id, project_id, force))

UnassignFromMission ==
    /\ Idle
    /\ \E project_id \in MissionIdsOf(missions) \cup {"M0"},
          unassign_pilot \in BOOLEAN, unassign_drone \in BOOLEAN :
        /\ call' = [name |-> "unassignFromMission", project_id |-> project_id,
                    unassign_pilot |-> unassign_pilot,
                    unassign_drone |-> unassign_drone]
        /\ Leave(unassignFromMission(pilots, drones, missions, project_id,
                                     unassign_pilot, unassign_drone))

HandleUrgentReassignment ==
    /\ Idle
    /\ \E pilot_id \in PilotIdsOf(pilots) \cup {Null},
          drone_id \in DroneIdsOf(drones) \cup {Null},
          auto_mark_unavailable \in BOOLEAN :
        /\ call' = [name |-> "handleUrgentReassignment", pilot_id |-> pilot_id,
                    drone_id |-> drone_id,
                    auto_mark_unavailable |-> auto_mark_unavailable]
        /\ Leave(handleUrgentReassignment(pilots, drones, missions, pilot_id,
                                          drone_id, auto_mark_unavailable))

\* The result goes back to the chat loop, which may call the next tool.
Return ==
    /\ ~Idle
    /\ call' = [name |-> "idle"]
    /\ ret' = [none |-> TRUE]
    /\ UNCHANGED <<pilots, drones, missions, inv, sync, sheets>>

AssignPilotNoForce == AssignPilotToMission({FALSE})

AssignDroneNoForce == AssignDroneToMission({FALSE})

NextNoForce ==
    \/ AssignPilotNoForce
    \/ AssignDroneNoForce
    \/ UnassignFromMission
    \/ HandleUrgentReassignment
    \/ Return

SpecNoForce == InitTools /\ [][NextNoForce]_vars

-----------------------------------------------------------------------------
(* Spec: the tools of route.ts, one call at a time, forced or not *)

\* The fleet the forced tools start from: nobody is assigned yet, and one
\* pilot is on leave.
InitForce ==
    /\ pilots = <<PilotP1("Available"), PilotP2("On Leave")>>
    /\ drones = <<DroneD1("Available")>>
    /\ \E r \in CornerRanges :
         missions = <<MissionM1(r, "", "", "Planned"),
                      MissionM2(<<1, 1>>, "", "", "Planned")>>
    /\ call = [name |-> "idle"]
    /\ ret = [none |-> TRUE]
    /\ inv = << >>
    /\ sync = Synced
    /\ sheets = NoSheets

AssignPilotAnyForce == AssignPilotToMission(BOOLEAN)

AssignDroneAnyForce == AssignDroneToMission(BOOLEAN)

Next ==
    \/ AssignPilotAnyForce
    \/ AssignDroneAnyForce
    \/ UnassignFromMission
    \/ HandleUrgentReassignment
    \/ Return

Spec == InitForce /\ [][Next]_vars

-----------------------------------------------------------------------------
(* SpecConc: two invocations of assignPilotToMission.execute in one process. *)
(* An invocation gives way to the other at its awaits: before the validator  *)
(* reads the missions a second time, before updatePilotStatus writes and     *)
(* before updateMissionStatus writes.                                        *)

Invocations == {1, 2}

\* An invocation that has not been made yet.
NotInvoked ==
    [pc |-> "idle", pilot_id |-> "", project_id |-> "", force |-> FALSE,
     conflicts |-> << >>, pilotMissions |-> << >>, result |-> [none |-> TRUE]]

InitConc ==
    /\ pilots = <<PilotP1("Available"), PilotP2("Available")>>
    /\ drones = <<DroneD1("Available")>>
    /\ \E r \in DateRanges \X DateRanges :
         missions = <<MissionM1(r[1], "", "", "Planned"),
                      MissionM2(r[2], "", "", "Planned")>>
    /\ call = [name |-> "idle"]
    /\ ret = [none |-> TRUE]
    /\ inv = <<NotInvoked, NotInvoked>>
    /\ sync = Synced
    /\ sheets = NoSheets

\* execute: async (params) => ...
Invoke(i) ==
    /\ inv[i].pc = "idle"
    /\ \E pilot_id \in PilotIdsOf(pilots), project_id \in MissionIdsOf(missions) :
         inv' = [inv EXCEPT ![i].pc = "validate", ![i].pilot_id = pilot_id,
                            ![i].project_id = project_id, ![i].force = FALSE]
    /\ UNCHANGED <<pilots, drones, missions, call, ret, sync, sheets>>

\* validatePilotAssignment up to its second getMissions() call
ValidateChecks(i) ==
    /\ inv[i].pc = "validate"
    /\ LET pilotId == inv[i].pilot_id
           projectId == inv[i].project_id
           pi == FindPilot(pilots, pilotId)
           mi == FindMission(missions, projectId)
           notFound == IF pi = 0 THEN <<PilotNotFound(pilotId)>>
                       ELSE <<PilotNotFound(projectId)>>
           validation == [valid |-> FALSE, conflicts |-> notFound]
       IN  IF pi = 0 \/ mi = 0
           THEN inv' = [inv EXCEPT
                    ![i].conflicts = notFound,
                    ![i].pc = IF Blocked(validation, inv[i].force)
                              THEN "done" ELSE "updatePilot",
                    ![i].result =
                        IF Blocked(validation, inv[i].force)
                        THEN [success |-> FALSE, conflicts |-> notFound]
                        ELSE @]
           ELSE inv' = [inv EXCEPT
                    ![i].conflicts = PilotChecks(pilots[pi], missions[mi],
                                                 pilotId, projectId),
                    ![i].pc = "overlaps"]
    /\ UNCHANGED <<pilots, drones, missions, call, ret, sync, sheets>>

\* validatePilotAssignment from its second getMissions() call, and the
\* tool's test of the validation
ValidateOverlaps(i) ==
    /\ inv[i].pc = "overlaps"
    /\ LET pilotId == inv[i].pilot_id
           projectId == inv[i].project_id
           mission == missions[FindMission(missions, projectId)]
           validation == ValidationResult(
               inv[i].conflicts \o PilotOverlaps(missions, mission, pilotId,
                                                 projectId))
       IN  inv' = [inv EXCEPT
               ![i].pilotMissions =
                   Map(PilotMissions(missions, pilotId, projectId),
                       LAMBDA m : m.project_id),
               ![i].conflicts = validation.conflicts,
               ![i].pc = IF Blocked(validation, inv[i].force)
                         THEN "done" ELSE "updatePilot",
               ![i].result =
                   IF Blocked(validation, inv[i].force)
                   THEN [success |-> FALSE, conflicts |-> validation.conflicts]
                   ELSE @]
    /\ UNCHANGED <<pilots, drones, missions, call, ret, sync, sheets>>

\* await updatePilotStatus(params.pilot_id, ...)
UpdatePilot(i) ==
    /\ inv[i].pc = "updatePilot"
    /\ LET pilotResult == updatePilotStatus(pilots, inv[i].pilot_id,
                              ResourceUpdates("Assigned", inv[i].project_id))
       IN  /\ pilots' = pilotResult.pilots
           /\ inv' = [inv EXCEPT ![i].pc = "updateMission",
                          ![i].result = [resource_updated |-> pilotResult.success]]
    /\ UNCHANGED <<drones, missions, call, ret, sync, sheets>>

\* await updateMissionStatus(params.project_id, ...) and the return
UpdateMission(i) ==
    /\ inv[i].pc = "updateMission"
    /\ LET missionResult == updateMissionStatus(missions, inv[i].project_id,
                                MissionUpdates(inv[i].pilot_id, Undefined, "Active"))
       IN  /\ missions' = missionResult.missions
           /\ inv' = [inv EXCEPT ![i].pc = "done",
                          ![i].result =
                              [success |-> TRUE,
                               resource_updated |-> inv[i].result.resource_updated,
                               mission_updated |-> missionResult.success,
                               warnings |-> Warnings(inv[i].conflicts)]]
    /\ UNCHANGED <<pilots, drones, call, ret, sync, sheets>>

NextConc ==
    \E i \in Invocations :
        \/ Invoke(i)
        \/ ValidateChecks(i)
        \/ ValidateOverlaps(i)
        \/ UpdatePilot(i)
        \/ UpdateMission(i)

SpecConc == InitConc /\ [][NextConc]_vars

-----------------------------------------------------------------------------
(* SpecScore: one call of findBestPilotForMission or                        *)
(* findBestDroneForMission on a fleet                                       *)

\* P3 has the fixed fields of P1, D3 those of D1; D4 carries a camera only
\* and is never due; M4 asks for a thermal survey.
PilotP3(status) ==
    Pilot("P3", <<"Mapping", "Survey">>, <<"DGCA", "Night Ops">>, "Bangalore",
          status, "")

DroneD3(status) == Drone("D3", <<"LiDAR", "RGB">>, status, "Bangalore", "", 2)

DroneD4(status) == Drone("D4", <<"rgb">>, status, "Mumbai", "", MaxDay + 1)

MissionM4(range, pilot, drone, status) ==
    Mission("M4", "Mumbai", <<"Thermal", "Survey">>, <<"DGCA">>,
            range[1], range[2], "Standard", pilot, drone, status)

ScoreMissionStatus == {<<"Planned", "Active">>, <<"Completed", "Active">>}

\* Either the pilots P1 and P3 vary in status and hold the missions, or the
\* drones D1 and D3 do.
InitScore ==
    /\ \E r \in DateRanges \X DateRanges, st \in ScoreMissionStatus :
         \/ \E s \in PilotStatus \X PilotStatus,
               a \in {"", "P1", "P3"} \X {"", "P1", "P3"} \X {"", "P1", "P3"} :
              /\ pilots = <<PilotP1(s[1]), PilotP2("Available"), PilotP3(s[2])>>
              /\ drones = <<DroneD1("Available"), DroneD2("Available"),
                            DroneD3("Maintenance"), DroneD4("Deployed")>>
              /\ missions = <<MissionM1(r[1], a[1], "", st[1]),
                              MissionM2(r[2], a[2], "D4", st[2]),
                              MissionM4(<<1, 1>>, a[3], "", "Planned")>>
         \/ \E t \in DroneStatus \X DroneStatus,
               a \in {"", "D1", "D3"} \X {"", "D1", "D3"} \X {"", "D1", "D3"} :
              /\ pilots = <<PilotP1("Available"), PilotP2("Assigned"),
                            PilotP3("On Leave")>>
              /\ drones = <<DroneD1(t[1]), DroneD2("Available"), DroneD3(t[2]),
                            DroneD4("Available")>>
              /\ missions = <<MissionM1(r[1], "", a[1], st[1]),
                              MissionM2(r[2], "P2", a[2], st[2]),
                              MissionM4(<<1, 1>>, "", a[3], "Planned")>>
    /\ call = [name |-> "idle"]
    /\ ret = [none |-> TRUE]
    /\ inv = << >>
    /\ sync = Synced
    /\ sheets = NoSheets

FindBestPilotForMission ==
    /\ Idle
    /\ \E projectId \in MissionIdsOf(missions) \cup {"M0"} :
        /\ call' = [name |-> "findBestPilotForMission", project_id |-> projectId]
        /\ ret' = [matches |-> findBestPilotForMission(pilots, missions, projectId)]
    /\ UNCHANGED <<pilots, drones, missions, inv, sync, sheets>>

FindBestDroneForMission ==
    /\ Idle
    /\ \E projectId \in MissionIdsOf(missions) \cup {"M0"} :
        /\ call' = [name |-> "findBestDroneForMission", project_id |-> projectId]
        /\ ret' = [matches |-> findBestDroneForMission(drones, missions, projectId)]
    /\ UNCHANGED <<pilots, drones, missions, inv, sync, sheets>>

NextScore == FindBestPilotForMission \/ FindBestDroneForMission

SpecScore == InitScore /\ [][NextScore]_vars

-----------------------------------------------------------------------------
(* SpecUrgent: one call of handleUrgentReassignment on a fleet of five      *)
(* pilots and five drones                                                   *)

\* P4 covers M1 in full; P5 holds no certification and sits in a third city;
\* D5 is a LiDAR drone that is never due.
PilotP4(status) == Pilot("P4", <<"Mapping">>, <<"DGCA">>, "Bangalore", status, "")

PilotP5(status) == Pilot("P5", <<"Survey", "Mapping">>, << >>, "Delhi", status, "")

DroneD5(status) == Drone("D5", <<"LiDAR">>, status, "Bangalore", "", MaxDay + 1)

UrgentMissionStatus == {<<"Planned", "Active", "Planned">>,
                        <<"Active", "Completed", "Active">>}

\* P1 and P3 hold the missions, D1 holds some of them; the other pilots are
\* all available or all on leave.
InitUrgent ==
    /\ \E s \in {"Available", "Assigned"},
          o \in {<<"Available", "Available">>, <<"On Leave", "Maintenance">>} :
         /\ pilots = <<PilotP1("Assigned"), PilotP2(o[1]), PilotP3(s),
                       PilotP4(o[1]), PilotP5(o[1])>>
         /\ drones = <<DroneD1("Deployed"), DroneD2("Available"), DroneD3(o[2]),
                       DroneD4("Available"), DroneD5("Available")>>
    /\ \E r \in CornerRanges \X CornerRanges, st \in UrgentMissionStatus,
          a \in {"", "P1", "P3"} \X {"", "P1", "P3"} \X {"", "P1"},
          d \in {"", "D1"} \X {"", "D1"} :
         missions = <<MissionM1(r[1], a[1], d[1], st[1]),
                      MissionM2(r[2], a[2], d[2], st[2]),
                      MissionM3(<<1, 1>>, a[3], "", st[3])>>
    /\ call = [name |-> "idle"]
    /\ ret = [none |-> TRUE]
    /\ inv = << >>
    /\ sync = Synced
    /\ sheets = NoSheets

NextUrgent == HandleUrgentReassignment

SpecUrgent == InitUrgent /\ [][NextUrgent]_vars

-----------------------------------------------------------------------------
(* SpecDates: one call of datesOverlap on four dates *)

InitDates ==
    /\ pilots = << >>
    /\ drones = << >>
    /\ missions = << >>
    /\ \E start1 \in 1..MaxDate, end1 \in 1..MaxDate,
          start2 \in 1..MaxDate, end2 \in 1..MaxDate :
         call = [name |-> "idle", start1 |-> start1, end1 |-> end1,
                 start2 |-> start2, end2 |-> end2]
    /\ ret = [none |-> TRUE]
    /\ inv = << >>
    /\ sync = Synced
    /\ sheets = NoSheets

DatesOverlap ==
    /\ Idle
    /\ call' = [call EXCEPT !.name = "datesOverlap"]
    /\ ret' = [overlap |-> datesOverlap(call.start1, call.end1,
                                        call.start2, call.end2)]
    /\ UNCHANGED <<pilots, drones, missions, inv, sync, sheets>>

NextDates == DatesOverlap

SpecDates == InitDates /\ [][NextDates]_vars

-----------------------------------------------------------------------------
(* SpecStore: the functions of dataStore.ts and the detectConflicts tool,  *)
(* one call at a time, while the clock runs.  Every call begins with       *)
(* initializeData().  No spreadsheet is configured: the store loads the    *)
(* seed data.  call holds the call made last and the source its            *)
(* initializeData() returned; ret holds its result.                        *)

\* The module-level variables of dataStore.ts before the first call.
InitStore ==
    /\ pilots = << >>
    /\ drones = << >>
    /\ missions = << >>
    /\ sync = NotSynced
    /\ sheets = NoSheets
    /\ call = [name |-> "idle"]
    /\ ret = [none |-> TRUE]
    /\ inv = << >>

\* The reads and the writes of the spreadsheet succeed or throw.  A call
\* reads the spreadsheet when its load is not cached.
ReadOutcomes == IF sheets.configured /\ ~Cached(sync) THEN BOOLEAN ELSE {TRUE}
WriteOutcomes == IF sheets.configured THEN BOOLEAN ELSE {FALSE}

\* What became of the write of a row: the store writes the row it found when
\* a spreadsheet is configured, and the write succeeds or throws.
WriteResult(found, writeOk) ==
    IF ~(found /\ sheets.configured) THEN "none"
    ELSE IF writeOk THEN "written" ELSE "failed"

\* await initializeData() on the store as it is.
Begin(readOk) == initializeData(sync, sheets, pilots, drones, missions, readOk)

\* The updates objects of the model, field by field: absent fields are
\* Undefined (0 for a date), a supplied field may be empty.
PilotUpdates ==
    {[status |-> "On Leave", current_assignment |-> Undefined,
      available_from |-> 2, location |-> Undefined],
     [status |-> Undefined, current_assignment |-> "M2",
      available_from |-> 0, location |-> "Mumbai"],
     [status |-> "Available", current_assignment |-> "",
      available_from |-> 0, location |-> ""]}

DroneUpdates ==
    {[status |-> "Maintenance", current_assignment |-> Undefined,
      location |-> Undefined, maintenance_due |-> 1],
     [status |-> "Available", current_assignment |-> "",
      location |-> "Mumbai", maintenance_due |-> 0]}

MissionStatusUpdates ==
    {[assigned_pilot |-> "P1", assigned_drone |-> Undefined,
      mission_status |-> Undefined],
     [assigned_pilot |-> "", assigned_drone |-> "D1",
      mission_status |-> "Completed"]}

\* Time passes: a minute, or the five minutes after which a load is stale.
Tick ==
    /\ \E d \in {1, ResyncAfter} :
         /\ sync.now + d <= MaxNow
         /\ sync' = [sync EXCEPT !.now = @ + d]
    /\ UNCHANGED <<pilots, drones, missions, call, ret, inv, sheets>>

\* A call that only reads leaves what its initializeData() left.
Loaded(s) ==
    /\ pilots' = s.pilots
    /\ drones' = s.drones
    /\ missions' = s.missions
    /\ sync' = s.sync
    /\ UNCHANGED <<inv, sheets>>

ForceSync ==
    \E readOk \in ReadOutcomes :
        LET s == forceSync(sync, sheets, pilots, drones, missions, readOk)
        IN  /\ call' = [name |-> "forceSync", source |-> s.source]
            /\ ret' = [source |-> s.source]
            /\ Loaded(s)

GetPilots ==
    \E readOk \in ReadOutcomes :
        LET s == Begin(readOk)
        IN  /\ call' = [name |-> "getPilots", source |-> s.source]
            /\ ret' = [pilots |-> s.pilots]
            /\ Loaded(s)

GetMissions ==
    \E readOk \in ReadOutcomes :
        LET s == Begin(readOk)
        IN  /\ call' = [name |-> "getMissions", source |-> s.source]
            /\ ret' = [missions |-> s.missions]
            /\ Loaded(s)

GetPilotById ==
    \E readOk \in ReadOutcomes, pilotId \in {"P1", "P0"} :
        LET s == Begin(readOk)
            index == FindPilot(s.pilots, pilotId)
        IN  /\ call' = [name |-> "getPilotById", source |-> s.source,
                        pilot_id |-> pilotId]
            /\ ret' = [pilot |-> IF index = 0 THEN <<Null>>
                                 ELSE <<s.pilots[index]>>]
            /\ Loaded(s)

\* route.ts 336-355: the detectConflicts tool
DetectConflicts ==
    \E readOk \in ReadOutcomes :
        LET s == Begin(readOk)
            conflicts == detectAllConflicts(s.pilots, s.drones, s.missions)
        IN  /\ call' = [name |-> "detectConflicts", source |-> s.source]
            /\ ret' = [total_conflicts |-> Len(conflicts),
                       errors |-> Len(Filter(conflicts,
                                     LAMBDA c : c.severity = "error")),
                       warnings |-> Len(Warnings(conflicts)),
                       conflict_details |-> conflicts]
            /\ Loaded(s)

UpdatePilotStatusOf(menu) ==
    \E pilotId \in {"P1", "P0"}, updates \in menu,
       readOk \in ReadOutcomes, writeOk \in WriteOutcomes :
        LET s == Begin(readOk)
            r == updatePilotStatus(s.pilots, pilotId, updates)
            index == FindPilot(s.pilots, pilotId)
            synced == sheets.configured /\ writeOk
        IN  /\ call' = [name |-> "updatePilotStatus", source |-> s.source,
                        id |-> pilotId, updates |-> updates,
                        writes |-> <<WriteResult(r.success, writeOk)>>]
            /\ pilots' = r.pilots
            /\ drones' = s.drones
            /\ missions' = s.missions
            /\ sync' = s.sync
            /\ sheets' = IF r.success /\ synced
                         THEN [sheets EXCEPT !.pilots =
                                  UpdateRow(@, pilotToRow(r.pilots[index]), index)]
                         ELSE sheets
            /\ ret' = IF r.success
                      THEN [success |-> TRUE, record |-> r.pilots[index],
                            synced_to_sheets |-> synced]
                      ELSE [success |-> FALSE,
                            error |-> <<"Pilot", pilotId, "not found">>]
            /\ UNCHANGED inv

UpdateDroneStatusOf(menu) ==
    \E droneId \in {"D1", "D0"}, updates \in menu,
       readOk \in ReadOutcomes, writeOk \in WriteOutcomes :
        LET s == Begin(readOk)
            r == updateDroneStatus(s.drones, droneId, updates)
            index == FindDrone(s.drones, droneId)
            synced == sheets.configured /\ writeOk
        IN  /\ call' = [name |-> "updateDroneStatus", source |-> s.source,
                        id |-> droneId, updates |-> updates,
                        writes |-> <<WriteResult(r.success, writeOk)>>]
            /\ pilots' = s.pilots
            /\ drones' = r.drones
            /\ missions' = s.missions
            /\ sync' = s.sync
            /\ sheets' = IF r.success /\ synced
                         THEN [sheets EXCEPT !.drones =
                                  UpdateRow(@, droneToRow(r.drones[index]), index)]
                         ELSE sheets
            /\ ret' = IF r.success
                      THEN [success |-> TRUE, record |-> r.drones[index],
                            synced_to_sheets |-> synced]
                      ELSE [success |-> FALSE,
                            error |-> <<"Drone", droneId, "not found">>]
            /\ UNCHANGED inv

UpdateMissionStatusOf(menu) ==
    \E projectId \in {"M2", "M0"}, updates \in menu,
       readOk \in ReadOutcomes, writeOk \in WriteOutcomes :
        LET s == Begin(readOk)
            r == updateMissionStatus(s.missions, projectId, updates)
            index == FindMission(s.missions, projectId)
            synced == sheets.configured /\ writeOk
        IN  /\ call' = [name |-> "updateMissionStatus", source |-> s.source,
                        id |-> projectId, updates |-> updates,
                        writes |-> <<WriteResult(r.success, writeOk)>>]
            /\ pilots' = s.pilots
            /\ drones' = s.drones
            /\ missions' = r.missions
            /\ sync' = s.sync
            /\ sheets' = IF r.success /\ synced
                         THEN [sheets EXCEPT !.missions =
                                  UpdateRow(@, missionToRow(r.missions[index]), index)]
                         ELSE sheets
            /\ ret' = IF r.success
                      THEN [success |-> TRUE, record |-> r.missions[index],
                            synced_to_sheets |-> synced]
                      ELSE [success |-> FALSE,
                            error |-> <<"Mission", projectId, "not found">>]
            /\ UNCHANGED inv

UpdatePilotStatus == UpdatePilotStatusOf(PilotUpdates)

UpdateDroneStatus == UpdateDroneStatusOf(DroneUpdates)

UpdateMissionStatus == UpdateMissionStatusOf(MissionStatusUpdates)

\* route.ts 227-257: assignPilotToMission.execute with the write-back of
\* the two rows and the synced_to_sheets it reports
AssignPilotExecute ==
    \E pilot_id \in {"P1", "P0"}, project_id \in {"M2", "M0"},
       force \in BOOLEAN, readOk \in ReadOutcomes,
       pilotWriteOk \in WriteOutcomes, missionWriteOk \in WriteOutcomes :
        LET s == Begin(readOk)
            out == assignPilotToMission(s.pilots, s.drones, s.missions,
                                        pilot_id, project_id, force)
            pi == FindPilot(s.pilots, pilot_id)
            mi == FindMission(s.missions, project_id)
            pilotWrite == WriteResult(out.ret.success /\ pi # 0, pilotWriteOk)
            missionWrite == WriteResult(out.ret.success /\ mi # 0, missionWriteOk)
        IN  /\ call' = [name |-> "assignPilotToMission", source |-> s.source,
                        pilot_id |-> pilot_id, project_id |-> project_id,
                        force |-> force,
                        writes |-> <<pilotWrite, missionWrite>>]
            /\ pilots' = out.pilots
            /\ drones' = out.drones
            /\ missions' = out.missions
            /\ sync' = s.sync
            /\ sheets' = [sheets EXCEPT
                   !.pilots = IF pilotWrite = "written"
                              THEN UpdateRow(@, pilotToRow(out.pilots[pi]), pi)
                              ELSE @,
                   !.missions = IF missionWrite = "written"
                                THEN UpdateRow(@, missionToRow(out.missions[mi]), mi)
                                ELSE @]
            /\ ret' = IF out.ret.success
                      THEN [synced_to_sheets |-> pilotWrite = "written"] @@ out.ret
                      ELSE out.ret
            /\ UNCHANGED inv

NextStore ==
    \/ Tick
    \/ ForceSync
    \/ GetPilots
    \/ GetMissions
    \/ GetPilotById
    \/ DetectConflicts
    \/ UpdatePilotStatus
    \/ UpdateDroneStatus
    \/ UpdateMissionStatus

SpecStore == InitStore /\ [][NextStore]_vars

-----------------------------------------------------------------------------
(* SpecSheets: updatePilotStatus, updateMissionStatus and the tool          *)
(* assignPilotToMission over a store with a spreadsheet behind it, whose    *)
(* reads and writes may throw                                               *)

\* The rows of the spreadsheet before the first call: the seed fleet with its
\* drone in maintenance.
SheetRows ==
    [configured |-> TRUE,
     pilots |-> Map(SeedPilots, pilotToRow),
     drones |-> Map(<<DroneD1("Maintenance")>>, droneToRow),
     missions |-> Map(SeedMissions, missionToRow)]

InitSheets ==
    /\ pilots = << >>
    /\ drones = << >>
    /\ missions = << >>
    /\ sync = NotSynced
    /\ sheets = SheetRows
    /\ call = [name |-> "idle"]
    /\ ret = [none |-> TRUE]
    /\ inv = << >>

\* One update of a pilot and one of a mission: the rows of the spreadsheet
\* fall behind the records by every write that throws.
MarkPilot ==
    UpdatePilotStatusOf({[status |-> "On Leave", current_assignment |-> Undefined,
                          available_from |-> 0, location |-> Undefined]})

MarkMission ==
    UpdateMissionStatusOf({[assigned_pilot |-> Undefined,
                            assigned_drone |-> Undefined,
                            mission_status |-> "Planned"]})

NextSheets ==
    \/ MarkPilot
    \/ MarkMission
    \/ AssignPilotExecute

SpecSheets == InitSheets /\ [][NextSheets]_vars

-----------------------------------------------------------------------------
(* Vocabulary of the claims *)

\* How many entries of a list pass a test.
Count(s, Test(_)) == Cardinality({k \in 1..Len(s) : Test(s[k])})

\* Two missions have a calendar day in common (closed ranges).
SharesADay(a, b) ==
    \E day \in 1..MaxDay :
        /\ a.start_date <= day /\ day <= a.end_date
        /\ b.start_date <= day /\ day <= b.end_date

Participates(m) == m.mission_status \in {"Planned", "Active"}

\* The record an id names, when there is one.
PilotOf(id) == CHOOSE p \in {pilots[k] : k \in 1..Len(pilots)} : p.pilot_id = id
DroneOf(id) == CHOOSE d \in {drones[k] : k \in 1..Len(drones)} : d.drone_id = id
MissionOf(id) == CHOOSE m \in {missions[k] : k \in 1..Len(missions)} : m.project_id = id

\* A required token the holder's list lacks, compared without case.
Lacks(held, required) ==
    \E k \in 1..Len(required) :
        \A l \in 1..Len(held) : toLowerCase(held[l]) # toLowerCase(required[k])

OtherCity(resource, m) == toLowerCase(resource.location) # toLowerCase(m.location)

OffDuty(pilot) == pilot.status \in {"On Leave", "Unavailable"}

Scanned == call.name = "detectAllConflicts"

\* Missions i < j clash over the pilot (drone) they share.
PilotClash(i, j) ==
    /\ Participates(missions[i]) /\ Participates(missions[j])
    /\ missions[i].assigned_pilot # ""
    /\ missions[i].assigned_pilot = missions[j].assigned_pilot
    /\ SharesADay(missions[i], missions[j])

DroneClash(i, j) ==
    /\ Participates(missions[i]) /\ Participates(missions[j])
    /\ missions[i].assigned_drone # ""
    /\ missions[i].assigned_drone = missions[j].assigned_drone
    /\ SharesADay(missions[i], missions[j])

MissionPairs == {p \in (1..Len(missions)) \X (1..Len(missions)) : p[1] < p[2]}

\* C3: detectAllConflicts returns exactly one double_booking_pilot error for
\* every pair of distinct Planned/Active missions with the same non-empty
\* assigned pilot and a day in common, none for any other pair, and the same
\* for double_booking_drone over the assigned drone.
C3_ScanDoubleBookingPairs ==
    Scanned =>
        LET cs == ret.conflicts
            Names(c, i, j) ==
                {c.entities[2], c.entities[3]} =
                    {missions[i].project_id, missions[j].project_id}
        IN  /\ \A p \in MissionPairs :
                /\ Count(cs, LAMBDA c : c.type = "double_booking_pilot"
                                        /\ Names(c, p[1], p[2]))
                     = IF PilotClash(p[1], p[2]) THEN 1 ELSE 0
                /\ Count(cs, LAMBDA c : c.type = "double_booking_drone"
                                        /\ Names(c, p[1], p[2]))
                     = IF DroneClash(p[1], p[2]) THEN 1 ELSE 0
            /\ \A k \in 1..Len(cs) :
                cs[k].type \in {"double_booking_pilot", "double_booking_drone"} =>
                    /\ cs[k].severity = "error"
                    /\ Len(cs[k].entities) = 3
                    /\ \E p \in MissionPairs :
                        /\ Names(cs[k], p[1], p[2])
                        /\ cs[k].entities[1] =
                             IF cs[k].type = "double_booking_pilot"
                             THEN missions[p[1]].assigned_pilot
                             ELSE missions[p[1]].assigned_drone

\* C3 witness: a scan of a fleet where one pilot is on three missions of
\* which exactly two pairs clash, and some pair of missions shares a drone
\* without clashing.
C3_Witness ==
    /\ Scanned
    /\ Cardinality({p \in MissionPairs : PilotClash(p[1], p[2])}) = 2
    /\ Count(ret.conflicts, LAMBDA c : c.type = "double_booking_pilot") = 2
    /\ \E p \in MissionPairs :
        /\ missions[p[1]].assigned_pilot # ""
        /\ missions[p[1]].assigned_pilot = missions[p[2]].assigned_pilot
        /\ ~PilotClash(p[1], p[2])

\* C4: no conflict detectAllConflicts returns names a Completed or Cancelled
\* mission, in its entities or as its mission_id, and a fleet with no
\* Planned/Active mission scans to the empty list.
C4_ScanSkipsFinishedMissions ==
    Scanned =>
        /\ \A k \in 1..Len(ret.conflicts), i \in 1..Len(missions) :
            ~Participates(missions[i]) =>
                /\ ret.conflicts[k].mission_id # missions[i].project_id
                /\ \A e \in 1..Len(ret.conflicts[k].entities) :
                    ret.conflicts[k].entities[e] # missions[i].project_id
        /\ (\A i \in 1..Len(missions) : ~Participates(missions[i]))
              => ret.conflicts = << >>

\* C4 witness: a scan that returns conflicts although a Completed or
\* Cancelled mission holds an Unavailable pilot it shares, on a common day,
\* with a Planned/Active mission.
C4_Witness ==
    /\ Scanned
    /\ ret.conflicts # << >>
    /\ \E i, j \in 1..Len(missions) :
        /\ ~Participates(missions[i]) /\ Participates(missions[j])
        /\ missions[i].assigned_pilot = "P2"
        /\ missions[j].assigned_pilot = "P2"
        /\ OffDuty(PilotOf("P2"))
        /\ SharesADay(missions[i], missions[j])

\* C4 witness of the empty case: a scan of a fleet whose missions are all
\* Completed or Cancelled and hold pilots and drones.
C4_WitnessEmpty ==
    /\ Scanned
    /\ \A i \in 1..Len(missions) :
        ~Participates(missions[i]) /\ missions[i].assigned_pilot # ""
    /\ ret.conflicts = << >>

\* The per-mission conflicts a scan owes mission m: a type, a severity and
\* the resource it blames.
PilotDues(m) ==
    IF m.assigned_pilot \in PilotIdsOf(pilots)
    THEN LET p == PilotOf(m.assigned_pilot)
         IN  {d \in {[type |-> "certification_mismatch", severity |-> "error",
                      due |-> Lacks(p.certifications, m.required_certs)],
                     [type |-> "skill_mismatch", severity |-> "warning",
                      due |-> Lacks(p.skills, m.required_skills)],
                     [type |-> "unavailable_pilot", severity |-> "error",
                      due |-> OffDuty(p)],
                     [type |-> "location_mismatch", severity |-> "warning",
                      due |-> OtherCity(p, m)]} : d.due}
    ELSE {}

DroneDues(m) ==
    IF m.assigned_drone \in DroneIdsOf(drones)
    THEN LET d == DroneOf(m.assigned_drone)
         IN  {x \in {[type |-> "maintenance_issue", severity |-> "error",
                      due |-> d.status = "Maintenance"],
                     [type |-> "location_mismatch", severity |-> "warning",
                      due |-> OtherCity(d, m)]} : x.due}
    ELSE {}

PerMissionTypes ==
    {"certification_mismatch", "skill_mismatch", "maintenance_issue",
     "unavailable_pilot", "location_mismatch"}

ValidatedPilot == call.name = "validatePilotAssignment"
ValidatedDrone == call.name = "validateDroneAssignment"

\* C6: validatePilotAssignment and validateDroneAssignment return valid
\* exactly when no returned conflict has severity error, for ids that exist
\* and for ids that do not.
C6_ValidIffNoError ==
    (ValidatedPilot \/ ValidatedDrone) =>
        (ret.valid <=> \A k \in 1..Len(ret.conflicts) :
                           ret.conflicts[k].severity # "error")

\* C6 witness: a validation that returns only a skill_mismatch and a
\* location_mismatch warning, and is valid.
C6_Witness ==
    /\ ValidatedPilot
    /\ ret.valid
    /\ {ret.conflicts[k].type : k \in 1..Len(ret.conflicts)} =
          {"skill_mismatch", "location_mismatch"}

\* C6 witness of the other side: validations of an id that does not exist.
C6_WitnessNotFound ==
    /\ ValidatedDrone
    /\ call.drone_id = "D0"
    /\ ~ret.valid

\* The missions other than the target that book the resource on a day of the
\* target's.
PilotRivals(pilotId, target) ==
    {i \in 1..Len(missions) :
        /\ missions[i].project_id # target.project_id
        /\ Participates(missions[i])
        /\ missions[i].assigned_pilot = pilotId
        /\ SharesADay(missions[i], target)}

DroneRivals(droneId, target) ==
    {i \in 1..Len(missions) :
        /\ missions[i].project_id # target.project_id
        /\ Participates(missions[i])
        /\ missions[i].assigned_drone = droneId
        /\ SharesADay(missions[i], target)}

\* C7: for an existing pilot p and mission m, validatePilotAssignment
\* returns one double_booking_pilot error for each other Planned/Active
\* mission of p that shares a day with m and no other double_booking_pilot
\* entry, none of them for m itself; validateDroneAssignment does the same
\* with double_booking_drone.
C7_ValidateDoubleBooking ==
    /\ (ValidatedPilot /\ call.pilot_id \in PilotIdsOf(pilots)
                       /\ call.project_id \in MissionIdsOf(missions)) =>
         LET m == MissionOf(call.project_id)
             rivals == PilotRivals(call.pilot_id, m)
         IN  /\ \A i \in 1..Len(missions) :
                 Count(ret.conflicts, LAMBDA c :
                     /\ c.type = "double_booking_pilot"
                     /\ c.severity = "error"
                     /\ c.entities = <<call.pilot_id, m.project_id,
                                       missions[i].project_id>>)
                   = IF i \in rivals THEN 1 ELSE 0
             /\ Count(ret.conflicts, LAMBDA c : c.type = "double_booking_pilot")
                   = Cardinality(rivals)
             /\ Count(ret.conflicts, LAMBDA c : c.type = "double_booking_drone") = 0
    /\ (ValidatedDrone /\ call.drone_id \in DroneIdsOf(drones)
                       /\ call.project_id \in MissionIdsOf(missions)) =>
         LET m == MissionOf(call.project_id)
             rivals == DroneRivals(call.drone_id, m)
         IN  /\ \A i \in 1..Len(missions) :
                 Count(ret.conflicts, LAMBDA c :
                     /\ c.type = "double_booking_drone"
                     /\ c.severity = "error"
                     /\ c.entities = <<call.drone_id, m.project_id,
                                       missions[i].project_id>>)
                   = IF i \in rivals THEN 1 ELSE 0
             /\ Count(ret.conflicts, LAMBDA c : c.type = "double_booking_drone")
                   = Cardinality(rivals)
             /\ Count(ret.conflicts, LAMBDA c : c.type = "double_booking_pilot") = 0

\* C7 witness: the pilot validated for a mission is already the pilot of
\* that mission and of the two others; one of the others shares a day with
\* the target and one does not; the result holds one double_booking_pilot.
C7_Witness ==
    /\ ValidatedPilot
    /\ call.project_id \in MissionIdsOf(missions)
    /\ \A i \in 1..Len(missions) :
        missions[i].assigned_pilot = call.pilot_id /\ Participates(missions[i])
    /\ Cardinality(PilotRivals(call.pilot_id, MissionOf(call.project_id))) = 1
    /\ Count(ret.conflicts, LAMBDA c : c.type = "double_booking_pilot") = 1
    /\ ~ret.valid

C8_WitnessCity ==
    /\ ValidatedPilot
    /\ call.pilot_id = "P1" /\ call.project_id = "M3"
    /\ Len(ret.conflicts) = 1
    /\ ret.conflicts[1].type = "location_mismatch"
    /\ ret.valid

\* C9: when the pilot (drone) id or the mission id is not in the store, the
\* validator returns valid = false with a single conflict, the one that
\* names the missing id, and none from the status, skill, certification,
\* location or double-booking checks.
C9_NotFoundShortCircuit ==
    /\ (ValidatedPilot /\ (call.pilot_id \notin PilotIdsOf(pilots)
                           \/ call.project_id \notin MissionIdsOf(missions))) =>
         /\ ~ret.valid
         /\ Len(ret.conflicts) = 1
         /\ ret.conflicts[1].severity = "error"
         /\ ret.conflicts[1].mission_id = Undefined
         /\ ret.conflicts[1].entities =
              IF call.pilot_id \notin PilotIdsOf(pilots)
              THEN <<call.pilot_id>> ELSE <<call.project_id>>
    /\ (ValidatedDrone /\ (call.drone_id \notin DroneIdsOf(drones)
                           \/ call.project_id \notin MissionIdsOf(missions))) =>
         /\ ~ret.valid
         /\ Len(ret.conflicts) = 1
         /\ ret.conflicts[1].severity = "error"
         /\ ret.conflicts[1].mission_id = Undefined
         /\ ret.conflicts[1].entities =
              IF call.drone_id \notin DroneIdsOf(drones)
              THEN <<call.drone_id>> ELSE <<call.project_id>>

\* C9 witness: an Unavailable pilot validated for a mission id that does not
\* exist; the result is the single not-found conflict.
C9_Witness ==
    /\ ValidatedPilot
    /\ call.pilot_id \in PilotIdsOf(pilots)
    /\ OffDuty(PilotOf(call.pilot_id))
    /\ call.project_id = "M0"
    /\ Len(ret.conflicts) = 1
    /\ ~ret.valid

\* C9 witness with the pilot missing: the mission exists and is booked.
C9_WitnessNoPilot ==
    /\ ValidatedPilot
    /\ call.pilot_id = "P0"
    /\ call.project_id \in MissionIdsOf(missions)
    /\ Len(ret.conflicts) = 1

-----------------------------------------------------------------------------
(* The assignment tools, one call at a time *)

\* No two Planned/Active missions with a day in common share a pilot or a
\* drone.
NoDoubleBooking ==
    \A p \in MissionPairs : ~PilotClash(p[1], p[2]) /\ ~DroneClash(p[1], p[2])

\* C1: from fleets without a double booking, the serialized calls of
\* assignPilotToMission and assignDroneToMission with force = false, of
\* unassignFromMission and of handleUrgentReassignment reach only states in
\* which no two Planned/Active missions with overlapping dates share their
\* assigned pilot or their assigned drone.
C1_NeverDoubleBooked == NoDoubleBooking

\* The store after the step is the store before it.
StoreUnchanged == UNCHANGED <<pilots, drones, missions>>

\* The step links the pilot (drone) and the mission to each other and touches
\* no other pilot, drone or mission, nor another field of the two but the
\* mission's status.
PilotLinked(pilot_id, project_id) ==
    /\ Len(pilots') = Len(pilots) /\ Len(missions') = Len(missions)
    /\ \A k \in 1..Len(pilots) :
         pilots'[k] = IF pilots[k].pilot_id = pilot_id
                      THEN [pilots[k] EXCEPT !.status = "Assigned",
                                             !.current_assignment = project_id]
                      ELSE pilots[k]
    /\ \A k \in 1..Len(missions) :
         IF missions[k].project_id = project_id
         THEN [missions'[k] EXCEPT !.mission_status = "Planned"] =
              [missions[k] EXCEPT !.assigned_pilot = pilot_id,
                                  !.mission_status = "Planned"]
         ELSE missions'[k] = missions[k]
    /\ drones' = drones

DroneLinked(drone_id, project_id) ==
    /\ Len(drones') = Len(drones) /\ Len(missions') = Len(missions)
    /\ \A k \in 1..Len(drones) :
         drones'[k] = IF drones[k].drone_id = drone_id
                      THEN [drones[k] EXCEPT !.status = "Deployed",
                                             !.current_assignment = project_id]
                      ELSE drones[k]
    /\ \A k \in 1..Len(missions) :
         IF missions[k].project_id = project_id
         THEN [missions'[k] EXCEPT !.mission_status = "Planned"] =
              [missions[k] EXCEPT !.assigned_drone = drone_id,
                                  !.mission_status = "Planned"]
         ELSE missions'[k] = missions[k]
    /\ pilots' = pilots

\* What a call without force owes to the validation of the store it found.
Honours(validation, linked) ==
    IF validation.valid
    THEN /\ ret'.success
         /\ ret'.warnings = validation.conflicts
         /\ linked
    ELSE /\ ~ret'.success
         /\ ret'.conflicts = validation.conflicts
         /\ StoreUnchanged

C10_WitnessBlocked ==
    /\ call.name = "assignDroneToMission" /\ ~call.force
    /\ ~ret.success
    /\ \E k \in 1..Len(ret.conflicts) :
         ret.conflicts[k].type = "double_booking_drone"
    /\ MissionOf(call.project_id).assigned_drone # call.drone_id
-----------------------------------------------------------------------------
(* Two invocations of assignPilotToMission at once *)

\* Invocation i returned success.
Committed(i) == inv[i].pc = "done" /\ inv[i].result.success

\* Both invocations committed one pilot to two missions with a day in common.
BothCommitted ==
    /\ Committed(1) /\ Committed(2)
    /\ ~inv[1].force /\ ~inv[2].force
    /\ inv[1].pilot_id = inv[2].pilot_id
    /\ inv[1].project_id # inv[2].project_id
    /\ SharesADay(MissionOf(inv[1].project_id), MissionOf(inv[2].project_id))

\* Mission i and mission j of the store clash over a pilot, in either order.
ClashOverPilot(a, b) ==
    \E p \in MissionPairs :
        /\ {missions[p[1]].project_id, missions[p[2]].project_id} = {a, b}
        /\ PilotClash(p[1], p[2])

\* C2: nothing keeps two invocations of assignPilotToMission (force = false)
\* for one pilot and two missions with overlapping dates apart.  When both
\* have committed, each validated the store as it was before the other wrote
\* its mission (the other's mission was not among the pilot's missions it
\* read), each found no error, and the pilot is double-booked on the two.
C2_RaceCommitsBoth ==
    BothCommitted =>
        /\ \A i \in Invocations :
             /\ ~HasErrors(inv[i].conflicts)
             /\ \A k \in 1..Len(inv[i].pilotMissions) :
                  inv[i].pilotMissions[k] # inv[3 - i].project_id
        /\ ClashOverPilot(inv[1].project_id, inv[2].project_id)

\* Both invocations committed and the store holds the double booking.
C2_Witness ==
    /\ BothCommitted
    /\ ClashOverPilot(inv[1].project_id, inv[2].project_id)
    /\ \A i \in Invocations : inv[i].result.warnings = inv[i].conflicts
-----------------------------------------------------------------------------
(* The assignment tools with the force flag *)

\* The step returns a failure and leaves the store alone.
Refused == ~ret'.success /\ StoreUnchanged

\* C11: the force flag overrides warnings, not errors.  Whatever the value
\* of force, a call of assignPilotToMission or assignDroneToMission whose
\* validator reports an error-severity conflict on the store it finds
\* commits nothing.
C11_ForceNeverOverridesErrors ==
    [][/\ (/\ call'.name = "assignPilotToMission"
           /\ ~validatePilotAssignment(pilots, missions, call'.pilot_id,
                                       call'.project_id).valid) => Refused
       /\ (/\ call'.name = "assignDroneToMission"
           /\ ~validateDroneAssignment(drones, missions, call'.drone_id,
                                       call'.project_id).valid) => Refused]_vars

\* Every non-empty assigned_pilot and assigned_drone names a record.
ReferencesExist ==
    \A k \in 1..Len(missions) :
        /\ missions[k].assigned_pilot # "" =>
               missions[k].assigned_pilot \in PilotIdsOf(pilots)
        /\ missions[k].assigned_drone # "" =>
               missions[k].assigned_drone \in DroneIdsOf(drones)

\* C12: from a fleet whose missions reference existing pilots and drones
\* only, every sequence of assignPilotToMission and assignDroneToMission
\* (forced or not), unassignFromMission and handleUrgentReassignment calls
\* leaves every non-empty assigned_pilot and assigned_drone naming an
\* existing record.
C12_ReferencesStayValid == ReferencesExist
-----------------------------------------------------------------------------
(* The scorers *)

ScoredPilots ==
    call.name = "findBestPilotForMission"
        /\ call.project_id \in MissionIdsOf(missions)

ScoredDrones ==
    call.name = "findBestDroneForMission"
        /\ call.project_id \in MissionIdsOf(missions)

\* Where the record of an entry stands in the store.
PilotIndex(pilot) == CHOOSE k \in 1..Len(pilots) : pilots[k] = pilot
DroneIndex(drone) == CHOOSE k \in 1..Len(drones) : drones[k] = drone

\* The matches run by non-increasing score, equal scores in store order.
Ranked(matches, Index(_)) ==
    \A i, j \in 1..Len(matches) :
        i < j =>
            \/ matches[i].score > matches[j].score
            \/ /\ matches[i].score = matches[j].score
               /\ Index(matches[i]) < Index(matches[j])

\* C13: for an existing mission findBestPilotForMission returns every pilot
\* of the store exactly once, whatever its score, by non-increasing score,
\* pilots of equal score in the order of the store; findBestDroneForMission
\* does the same with the drones.
C13_ScorerKeepsAllRanked ==
    /\ ScoredPilots =>
         /\ Len(ret.matches) = Len(pilots)
         /\ \A k \in 1..Len(pilots) :
              Count(ret.matches, LAMBDA x : x.pilot = pilots[k]) = 1
         /\ Ranked(ret.matches, LAMBDA x : PilotIndex(x.pilot))
    /\ ScoredDrones =>
         /\ Len(ret.matches) = Len(drones)
         /\ \A k \in 1..Len(drones) :
              Count(ret.matches, LAMBDA x : x.drone = drones[k]) = 1
         /\ Ranked(ret.matches, LAMBDA x : DroneIndex(x.drone))

\* Two pilots tie below a pilot that stands after them in the store, and a
\* pilot with a negative score is listed.
C13_Witness ==
    /\ ScoredPilots
    /\ ret.matches[1].pilot.pilot_id = "P2"
    /\ ret.matches[2].score = ret.matches[3].score
    /\ ret.matches[2].pilot.pilot_id = "P1"
    /\ ret.matches[3].score < 0

\* The pilot holds a Planned/Active mission with a day in common with the
\* target (the target itself, if the pilot holds it, is one).
PilotBusyOn(pilot, target) ==
    \E k \in 1..Len(missions) :
        /\ Participates(missions[k])
        /\ missions[k].assigned_pilot = pilot.pilot_id
        /\ SharesADay(missions[k], target)

\* The four terms of a pilot's score.
PilotStatusTerm(pilot, target) ==
    CASE pilot.status = "Available" -> 30
      [] pilot.status = "Assigned" /\ ~PilotBusyOn(pilot, target) -> 20
      [] pilot.status = "Assigned" /\ PilotBusyOn(pilot, target) -> -50
      [] OffDuty(pilot) -> -100

PilotSkillTerm(pilot, target) ==
    IF Lacks(pilot.skills, target.required_skills) THEN -20 ELSE 25

PilotCertTerm(pilot, target) ==
    IF Lacks(pilot.certifications, target.required_certs) THEN -30 ELSE 25

PilotCityTerm(pilot, target) == IF OtherCity(pilot, target) THEN -10 ELSE 20

\* How many issues carry one of the tags.
Tagged(issues, tags) == Count(issues, LAMBDA issue : issue[1] \in tags)

\* 1 for a negative term, 0 for a positive one.
Minus(term) == IF term < 0 THEN 1 ELSE 0

\* C14: the score findBestPilotForMission gives a pilot is the sum of the
\* status term (Available +30, Assigned without an overlapping current
\* mission +20, Assigned with one -50, On Leave or Unavailable -100), the
\* skills term (+25 or -20), the certifications term (+25 or -30) and the
\* location term (+20 or -10); the issues hold one entry for each negative
\* term and none for a positive one.
C14_PilotScoreIsSumOfTerms ==
    ScoredPilots =>
        \A k \in 1..Len(ret.matches) :
            LET x == ret.matches[k]
                target == MissionOf(call.project_id)
                status == PilotStatusTerm(x.pilot, target)
                skill == PilotSkillTerm(x.pilot, target)
                cert == PilotCertTerm(x.pilot, target)
                city == PilotCityTerm(x.pilot, target)
            IN  /\ x.score = status + skill + cert + city
                /\ Len(x.issues) = Minus(status) + Minus(skill) + Minus(cert)
                                     + Minus(city)
                /\ Tagged(x.issues, {"Status", "Has overlapping assignment"})
                       = Minus(status)
                /\ Tagged(x.issues, {"Missing skills"}) = Minus(skill)
                /\ Tagged(x.issues, {"Missing certs"}) = Minus(cert)
                /\ Tagged(x.issues, {"Location"}) = Minus(city)

\* An assigned pilot with an overlapping mission, short of a skill and in
\* another city, scores -50 - 20 + 25 - 10 with three issues, next to a
\* pilot short of a certification alone.
C14_Witness ==
    /\ ScoredPilots
    /\ \E k \in 1..Len(ret.matches) :
         /\ ret.matches[k].pilot.status = "Assigned"
         /\ ret.matches[k].score = -55
         /\ Len(ret.matches[k].issues) = 3
    /\ \E k \in 1..Len(ret.matches) :
         /\ ret.matches[k].score = 30 + 25 - 30 + 20
         /\ Tagged(ret.matches[k].issues, {"Missing certs"}) = 1

\* The drone holds a Planned/Active mission with a day in common with the
\* target.
DroneBusyOn(drone, target) ==
    \E k \in 1..Len(missions) :
        /\ Participates(missions[k])
        /\ missions[k].assigned_drone = drone.drone_id
        /\ SharesADay(missions[k], target)

\* The token is among the tokens of the list, compared without case.
Lists(tokens, token) == ~Lacks(tokens, <<token>>)

\* The terms of a drone's score.
DroneStatusTerm(drone, target) ==
    CASE drone.status = "Available" -> 30
      [] drone.status = "Deployed" /\ ~DroneBusyOn(drone, target) -> 15
      [] drone.status = "Deployed" /\ DroneBusyOn(drone, target) -> -50
      [] drone.status = "Maintenance" -> -100

DroneCityTerm(drone, target) == IF OtherCity(drone, target) THEN -15 ELSE 30

DroneThermalTerm(drone, target) ==
    IF ~Lists(target.required_skills, "thermal") THEN 0
    ELSE IF Lists(drone.capabilities, "thermal") THEN 20 ELSE -15

DroneMappingTerm(drone, target) ==
    IF ~(Lists(target.required_skills, "mapping")
           \/ Lists(target.required_skills, "survey")) THEN 0
    ELSE IF Lists(drone.capabilities, "lidar") THEN 20
    ELSE IF Lists(drone.capabilities, "rgb") THEN 10 ELSE 0

DroneDueTerm(drone, target) ==
    IF drone.maintenance_due <= target.end_date THEN -10 ELSE 0

\* Two drones that differ in nothing the score reads but their status.
Twins(a, b) ==
    /\ a.capabilities = b.capabilities
    /\ a.location = b.location
    /\ a.maintenance_due = b.maintenance_due

\* C15: the score findBestDroneForMission gives a drone is the sum of the
\* status term (Available +30, Deployed without overlap +15, Deployed with
\* overlap -50, Maintenance -100), the location term (+30 or -15), the
\* thermal term (only for a mission requiring thermal: +20 or -15), the
\* mapping term (only for a mission requiring mapping or survey: LiDAR +20,
\* else RGB +10, else 0) and -10 when maintenance is due on or before the
\* mission's end; so a drone in Maintenance never scores above an Available
\* drone with the same other attributes.
C15_DroneScoreIsSumOfTerms ==
    ScoredDrones =>
        LET target == MissionOf(call.project_id)
        IN  /\ \A k \in 1..Len(ret.matches) :
                 LET x == ret.matches[k]
                 IN  x.score = DroneStatusTerm(x.drone, target)
                                 + DroneCityTerm(x.drone, target)
                                 + DroneThermalTerm(x.drone, target)
                                 + DroneMappingTerm(x.drone, target)
                                 + DroneDueTerm(x.drone, target)
            /\ \A k, l \in 1..Len(ret.matches) :
                 (/\ ret.matches[k].drone.status = "Maintenance"
                  /\ ret.matches[l].drone.status = "Available"
                  /\ Twins(ret.matches[k].drone, ret.matches[l].drone))
                 => ret.matches[k].score <= ret.matches[l].score

\* A thermal survey is scored: a thermal drone, a LiDAR drone without
\* thermal, a camera drone, a deployed drone with an overlapping mission,
\* and a drone in Maintenance next to its Available twin.
C15_Witness ==
    /\ ScoredDrones
    /\ Lists(MissionOf(call.project_id).required_skills, "thermal")
    /\ Lists(MissionOf(call.project_id).required_skills, "survey")
    /\ \E k, l \in 1..Len(ret.matches) :
         /\ ret.matches[k].drone.status = "Maintenance"
         /\ ret.matches[l].drone.status = "Available"
         /\ Twins(ret.matches[k].drone, ret.matches[l].drone)
         /\ ret.matches[k].score = ret.matches[l].score - 130
    /\ \E k \in 1..Len(ret.matches) :
         /\ DroneThermalTerm(ret.matches[k].drone, MissionOf(call.project_id)) = 20
         /\ DroneDueTerm(ret.matches[k].drone, MissionOf(call.project_id)) = -10
    /\ \E k \in 1..Len(ret.matches) :
         DroneMappingTerm(ret.matches[k].drone, MissionOf(call.project_id)) = 10

\* A deployed drone with an overlapping mission is scored.
C15_WitnessDeployed ==
    /\ ScoredDrones
    /\ \E k \in 1..Len(ret.matches) :
         /\ ret.matches[k].drone.status = "Deployed"
         /\ DroneBusyOn(ret.matches[k].drone, MissionOf(call.project_id))
         /\ ret.matches[k].score < 0
-----------------------------------------------------------------------------
(* handleUrgentReassignment *)

Urgently == call.name = "handleUrgentReassignment"

\* Urgent before High before Standard.
PriorityRank(priority) ==
    CASE priority = "Urgent" -> 1 [] priority = "High" -> 2 [] priority = "Standard" -> 3

\* C16: for every trigger (a pilot, a drone, or both) the affected_missions
\* handleUrgentReassignment returns run by priority: every Urgent mission
\* before every High one, every High one before every Standard one.
C16_AffectedByPriority ==
    Urgently =>
        \A i, j \in 1..Len(ret.affected_missions) :
            i < j => PriorityRank(ret.affected_missions[i].priority)
                       <= PriorityRank(ret.affected_missions[j].priority)

\* The call names a pilot (a drone) as the trigger.
PilotTriggered == call.pilot_id \notin {Null, ""}
DroneTriggered == call.drone_id \notin {Null, ""}

\* The Planned/Active missions the triggered pilot (drone) holds.
HitByPilot ==
    {missions[k].project_id : k \in {l \in 1..Len(missions) :
        /\ PilotTriggered
        /\ Participates(missions[l])
        /\ missions[l].assigned_pilot = call.pilot_id}}

HitByDrone ==
    {missions[k].project_id : k \in {l \in 1..Len(missions) :
        /\ DroneTriggered
        /\ Participates(missions[l])
        /\ missions[l].assigned_drone = call.drone_id}}

\* The entries of reassignment_options for a mission, of one kind.
Options(id, kind) ==
    SelectSeq(ret.reassignment_options,
              LAMBDA o : o.mission = id /\ o.kind = kind)

\* C17: the affected set of handleUrgentReassignment is exactly the
\* Planned/Active missions whose assigned_pilot (assigned_drone) is the
\* trigger; each is listed once in affected_missions, also when both
\* triggers hit it, and has one reassignment_options entry with pilot
\* replacements if the pilot trigger hits it and one with drone replacements
\* if the drone trigger does.
C17_AffectedSetExact ==
    Urgently =>
        /\ {ret.affected_missions[k].project_id :
               k \in 1..Len(ret.affected_missions)} = HitByPilot \cup HitByDrone
        /\ Len(ret.affected_missions) = Cardinality(HitByPilot \cup HitByDrone)
        /\ Len(ret.reassignment_options)
               = Cardinality(HitByPilot) + Cardinality(HitByDrone)
        /\ \A id \in MissionIdsOf(missions) :
             /\ Len(Options(id, "replacements")) = IF id \in HitByPilot THEN 1 ELSE 0
             /\ Len(Options(id, "drone_replacements"))
                    = IF id \in HitByDrone THEN 1 ELSE 0

\* Both triggers hit one mission, another mission they hold is Completed or
\* Cancelled, and the mission hit twice is listed once with two options.
C17_Witness ==
    /\ Urgently
    /\ \E id \in HitByPilot \cap HitByDrone :
         /\ Count(ret.affected_missions, LAMBDA m : m.project_id = id) = 1
         /\ Count(ret.reassignment_options, LAMBDA o : o.mission = id) = 2
    /\ \E k \in 1..Len(missions) :
         /\ ~Participates(missions[k])
         /\ missions[k].assigned_pilot = call.pilot_id
         /\ missions[k].assigned_drone = call.drone_id

\* The candidates for an option: the records other than the trigger whose
\* score for the option's mission is above 0, with that score.
ViablePilots(o) ==
    {c \in {[id |-> pilots[k].pilot_id,
             score |-> ScorePilot(pilots[k], MissionOf(o.mission), missions).score] :
                k \in 1..Len(pilots)} :
        c.score > 0 /\ c.id # call.pilot_id}

ViableDrones(o) ==
    {c \in {[id |-> drones[k].drone_id,
             score |-> ScoreDrone(drones[k], MissionOf(o.mission), missions).score] :
                k \in 1..Len(drones)} :
        c.score > 0 /\ c.id # call.drone_id}

ViableFor(o) == IF o.kind = "replacements" THEN ViablePilots(o) ELSE ViableDrones(o)

\* The candidates an option lists, as id and score.
Listed(o) ==
    {[id |-> o.replacements[k].id, score |-> o.replacements[k].score] :
        k \in 1..Len(o.replacements)}

Min(a, b) == IF a < b THEN a ELSE b

\* C18: the replacements of each affected mission are at most 3, each with a
\* score above 0 and none the triggered resource; they are the candidates of
\* highest score, listed by non-increasing score; no_replacement is true
\* exactly when no candidate but the triggered resource scores above 0.
C18_TopThreeViable ==
    Urgently =>
        \A n \in 1..Len(ret.reassignment_options) :
            LET o == ret.reassignment_options[n]
            IN  /\ Len(o.replacements) <= 3
                /\ Len(o.replacements) = Min(3, Cardinality(ViableFor(o)))
                /\ Cardinality(Listed(o)) = Len(o.replacements)
                /\ Listed(o) \subseteq ViableFor(o)
                /\ \A c \in ViableFor(o) \ Listed(o), l \in Listed(o) :
                     c.score <= l.score
                /\ \A i, j \in 1..Len(o.replacements) :
                     i < j => o.replacements[i].score >= o.replacements[j].score
                /\ o.no_replacement <=> ViableFor(o) = {}

\* Four pilots other than the trigger score above 0 and three are listed,
\* while the triggered pilot itself scores above 0.
C18_Witness ==
    /\ Urgently
    /\ ~call.auto_mark_unavailable
    /\ \E n \in 1..Len(ret.reassignment_options) :
         LET o == ret.reassignment_options[n]
         IN  /\ o.kind = "replacements"
             /\ Cardinality(ViablePilots(o)) = 4
             /\ Len(o.replacements) = 3
             /\ ScorePilot(PilotOf(call.pilot_id), MissionOf(o.mission),
                           missions).score > 0

\* No pilot but the trigger scores above 0 for an affected mission.
C18_WitnessNone ==
    /\ Urgently
    /\ \E n \in 1..Len(ret.reassignment_options) :
         LET o == ret.reassignment_options[n]
         IN  o.kind = "replacements" /\ o.no_replacement /\ o.replacements = << >>

C20_ProposalsAreValid ==
    Urgently =>
        \A n \in 1..Len(ret.reassignment_options) :
            LET o == ret.reassignment_options[n]
            IN  \A k \in 1..Len(o.replacements) :
                    IF o.kind = "replacements"
                    THEN /\ validatePilotAssignment(pilots, missions,
                                o.replacements[k].id, o.mission).valid
                         /\ ~Lacks(PilotOf(o.replacements[k].id).skills,
                                   MissionOf(o.mission).required_skills)
                    ELSE validateDroneAssignment(drones, missions,
                             o.replacements[k].id, o.mission).valid

-----------------------------------------------------------------------------
(* The store between calls *)

\* The step is a call of the named function: a call takes no time on the
\* clock, and time passes between calls.
Calls(name) == call'.name = name /\ sync'.now = sync.now

\* The initializeData() of the call found the load fresh and loaded nothing.
CachedSources == {"local_cached", "google_sheets_cached"}

UpdateCalls == {"updatePilotStatus", "updateDroneStatus", "updateMissionStatus"}

\* The field is supplied in the updates object: it is not absent.
Supplied(updates, field) ==
    /\ field \in DOMAIN updates
    /\ IF field \in {"available_from", "maintenance_due"}
       THEN updates[field] # 0
       ELSE updates[field] # Undefined

\* The step changes at most the record named id, and of it at most the
\* fields the updates supply.
OnlySupplied(old, new, key, id, updates) ==
    /\ Len(new) = Len(old)
    /\ \A k \in 1..Len(old) :
         new[k] # old[k] =>
            /\ old[k][key] = id
            /\ \A field \in DOMAIN old[k] :
                 new[k][field] # old[k][field] => Supplied(updates, field)

\* What the claim says of one update call on the list it works on.
UpdateContract(old, new, key) ==
    IF \E k \in 1..Len(new) : new[k][key] = call'.id
    THEN /\ ret'.success
         /\ OnlySupplied(old, new, key, call'.id, call'.updates)
    ELSE /\ ~ret'.success
         /\ "error" \in DOMAIN ret'
         /\ new = old

\* C22: updatePilotStatus, updateDroneStatus and updateMissionStatus called
\* with an id that is not in the store return success = false with an error
\* and leave every pilot, drone and mission record unchanged; called with an
\* existing id they change only the fields supplied in the update and only
\* on that record.
C22_UpdatesTouchOnlyTheirFields ==
    [][sync.initialized =>
          /\ Calls("updatePilotStatus") =>
                /\ UpdateContract(pilots, pilots', "pilot_id")
                /\ UNCHANGED <<drones, missions>>
          /\ Calls("updateDroneStatus") =>
                /\ UpdateContract(drones, drones', "drone_id")
                /\ UNCHANGED <<pilots, missions>>
          /\ Calls("updateMissionStatus") =>
                /\ UpdateContract(missions, missions', "project_id")
                /\ UNCHANGED <<pilots, drones>>]_vars

\* C24: records are created at store initialization and change afterwards
\* only through the update operations.  Once the store is initialized, a step
\* that is not an update or a forceSync leaves every record as it was,
\* however much time has passed, and a read returns the records the store
\* held before it: the values of the last update.
C24_RecordsChangeOnlyByUpdates ==
    [][sync.initialized =>
          /\ \/ \E name \in UpdateCalls \cup {"forceSync"} : Calls(name)
             \/ StoreUnchanged
          /\ Calls("getPilots") => ret'.pilots = pilots
          /\ Calls("getMissions") => ret'.missions = missions
          /\ Calls("getPilotById") =>
                \A k \in 1..Len(pilots) :
                    pilots[k].pilot_id = call'.pilot_id =>
                        ret'.pilot = <<pilots[k]>>]_vars

\* C23: a failure of the spreadsheet during a write is reported to the
\* caller.  Whenever the write of the pilot row or of the mission row throws
\* during an update or an assignment that was carried out, the result is not
\* the result of a fully persisted operation: it does not say
\* synced_to_sheets = true.
C23_WriteFailureReported ==
    (/\ call.name \in UpdateCalls \cup {"assignPilotToMission"}
     /\ ret.success
     /\ \E k \in 1..Len(call.writes) : call.writes[k] = "failed")
        => ~ret.synced_to_sheets

-----------------------------------------------------------------------------
(* datesOverlap on its own *)

\* The days of a range, both ends included.
DaysOf(start, end) == {day \in 1..MaxDate : start <= day /\ day <= end}

\* C25: datesOverlap is the closed-interval overlap test.  It is true
\* exactly when start1 <= end2 and start2 <= end1; for two ranges with
\* start <= end that is exactly when they have a calendar day in common.  It
\* gives the same answer with the two ranges exchanged, it is true of a range
\* with start <= end and itself, and it is true of two ranges of which one
\* ends the day the other starts.
C25_DatesOverlapClosed ==
    call.name = "datesOverlap" =>
        LET a == <<call.start1, call.end1>>
            b == <<call.start2, call.end2>>
            proper == a[1] <= a[2] /\ b[1] <= b[2]
        IN  /\ ret.overlap <=> (a[1] <= b[2] /\ b[1] <= a[2])
            /\ proper =>
                 (ret.overlap <=> DaysOf(a[1], a[2]) \cap DaysOf(b[1], b[2]) # {})
            /\ ret.overlap <=> datesOverlap(b[1], b[2], a[1], a[2])
            /\ (proper /\ a = b) => ret.overlap
            /\ (proper /\ (a[2] = b[1] \/ b[2] = a[1])) => ret.overlap

\* Two ranges of more than one day that share exactly one day: the first ends
\* the day the second starts.
C25_Witness ==
    /\ call.name = "datesOverlap"
    /\ call.start1 < call.end1
    /\ call.end1 = call.start2
    /\ call.start2 < call.end2
    /\ ret.overlap

\* Two ranges a day apart do not overlap.
C25_WitnessApart ==
    /\ call.name = "datesOverlap"
    /\ call.start1 <= call.end1
    /\ call.end1 + 1 = call.start2
    /\ call.start2 <= call.end2
    /\ ~ret.overlap

-----------------------------------------------------------------------------
(* Status and assignments across the tools *)

\* Some Planned or Active mission names the pilot (the drone).
PilotHeld(id) ==
    \E k \in 1..Len(missions) :
        IsActiveOrPlanned(missions[k]) /\ missions[k].assigned_pilot = id

DroneHeld(id) ==
    \E k \in 1..Len(missions) :
        IsActiveOrPlanned(missions[k]) /\ missions[k].assigned_drone = id

\* C26: resource status and mission assignments stay consistent.  After
\* any sequence of tool calls from a consistent fleet, a pilot has status
\* Assigned exactly when some Planned or Active mission has it as
\* assigned_pilot, and a drone has status Deployed exactly when some Planned
\* or Active mission has it as assigned_drone.
C26_StatusFollowsAssignments ==
    /\ \A k \in 1..Len(pilots) :
         pilots[k].status = "Assigned" <=> PilotHeld(pilots[k].pilot_id)
    /\ \A k \in 1..Len(drones) :
         drones[k].status = "Deployed" <=> DroneHeld(drones[k].drone_id)

-----------------------------------------------------------------------------
(* Scorer and validator on overlaps *)

\* The scorer's entry carries the overlap issue.
FlaggedOverlap(entry, issue) == Count(entry.issues, LAMBDA i : i = <<issue>>) > 0

\* The validator's result has an error of the type.
HasErrorOf(validation, type) ==
    Some(validation.conflicts,
         LAMBDA c : c.type = type /\ c.severity = "error")

\* C27: scorer and validator agree on overlaps.  For a mission m and a pilot
\* p with status Assigned, findBestPilotForMission(m) gives p the issue
\* 'Has overlapping assignment' exactly when validatePilotAssignment(p, m)
\* reports a double_booking_pilot error, also when p is the assigned pilot
\* of m; the same holds of a Deployed drone, 'Has overlapping deployment'
\* and double_booking_drone.
C27_ScorerAgreesWithValidator ==
    /\ ScoredPilots =>
         \A k \in 1..Len(ret.matches) :
            ret.matches[k].pilot.status = "Assigned" =>
               (FlaggedOverlap(ret.matches[k], "Has overlapping assignment")
                  <=> HasErrorOf(validatePilotAssignment(pilots, missions,
                                     ret.matches[k].pilot.pilot_id,
                                     call.project_id),
                                 "double_booking_pilot"))
    /\ ScoredDrones =>
         \A k \in 1..Len(ret.matches) :
            ret.matches[k].drone.status = "Deployed" =>
               (FlaggedOverlap(ret.matches[k], "Has overlapping deployment")
                  <=> HasErrorOf(validateDroneAssignment(drones, missions,
                                     ret.matches[k].drone.drone_id,
                                     call.project_id),
                                 "double_booking_drone"))

-----------------------------------------------------------------------------
(* Validator before and scanner after an assignment *)

TypesOf(conflicts) == {conflicts[k].type : k \in 1..Len(conflicts)}

Names(conflict, id) == \E k \in 1..Len(conflict.entities) : conflict.entities[k] = id

\* C28: validator and scanner agree on a committed assignment.  When
\* assignPilotToMission commits p to m, forced or not, the kinds of conflict
\* validatePilotAssignment(p, m) reported on the store before the call are
\* the kinds detectAllConflicts reports on the store after it in the entries
\* whose entities name both p and m; an assignment validated without any
\* conflict adds no scanner conflict that names p and m.
C28_ScannerAgreesWithValidator ==
    [][(call'.name = "assignPilotToMission" /\ ret'.success) =>
          TypesOf(validatePilotAssignment(pilots, missions, call'.pilot_id,
                                          call'.project_id).conflicts)
            = TypesOf(Filter(detectAllConflicts(pilots', drones', missions'),
                             LAMBDA c : /\ Names(c, call'.pilot_id)
                                        /\ Names(c, call'.project_id)))]_vars

-----------------------------------------------------------------------------
(* Finished missions *)

Finished(m) == m.mission_status \in {"Completed", "Cancelled"}

\* C29: finished missions stay finished.  No call of assignPilotToMission,
\* assignDroneToMission, unassignFromMission or handleUrgentReassignment
\* changes the mission_status of a mission that is Completed or Cancelled.
C29_FinishedMissionsStayFinished ==
    [][\A k \in 1..Len(missions) :
          Finished(missions[k]) =>
             missions'[k].mission_status = missions[k].mission_status]_vars

-----------------------------------------------------------------------------
(* Resources that cannot work *)

Grounded(drone) == drone.status = "Maintenance"

ListedIds(o) == {o.replacements[k].id : k \in 1..Len(o.replacements)}

\* C30: a resource that cannot work is never proposed.  For every mission
\* of the store a pilot On Leave or Unavailable and a drone in Maintenance
\* score at most -30, hence at most 0, and no replacement list of
\* handleUrgentReassignment names one; this holds of the triggered resource
\* once it was marked and of any other such resource.
C30_OffDutyNeverProposed ==
    Urgently =>
        /\ \A m \in 1..Len(missions), k \in 1..Len(pilots) :
              OffDuty(pilots[k]) =>
                 ScorePilot(pilots[k], missions[m], missions).score <= -30
        /\ \A m \in 1..Len(missions), k \in 1..Len(drones) :
              Grounded(drones[k]) =>
                 ScoreDrone(drones[k], missions[m], missions).score <= -30
        /\ \A n \in 1..Len(ret.reassignment_options) :
              LET o == ret.reassignment_options[n]
              IN  IF o.kind = "replacements"
                  THEN \A k \in 1..Len(pilots) :
                          OffDuty(pilots[k]) =>
                             pilots[k].pilot_id \notin ListedIds(o)
                  ELSE \A k \in 1..Len(drones) :
                          Grounded(drones[k]) =>
                             drones[k].drone_id \notin ListedIds(o)

\* The triggered pilot was marked Unavailable, a pilot on leave who covers
\* the affected mission in full scores -30 for it, and the mission's list
\* names neither of them.
C30_Witness ==
    /\ Urgently
    /\ call.auto_mark_unavailable
    /\ PilotTriggered
    /\ PilotOf(call.pilot_id).status = "Unavailable"
    /\ \E n \in 1..Len(ret.reassignment_options) :
         LET o == ret.reassignment_options[n]
         IN  /\ o.kind = "replacements"
             /\ \E k \in 1..Len(pilots) :
                  /\ pilots[k].status = "On Leave"
                  /\ ScorePilot(pilots[k], MissionOf(o.mission), missions).score = -30
             /\ call.pilot_id \notin ListedIds(o)

\* A drone in Maintenance stands in the store while replacements are sought
\* for the triggered drone's mission, and the triggered drone was marked.
C30_WitnessDrone ==
    /\ Urgently
    /\ call.auto_mark_unavailable
    /\ DroneTriggered
    /\ DroneOf(call.drone_id).status = "Maintenance"
    /\ \E n \in 1..Len(ret.reassignment_options) :
         LET o == ret.reassignment_options[n]
         IN  /\ o.kind # "replacements"
             /\ \E k \in 1..Len(drones) :
                  /\ Grounded(drones[k]) /\ drones[k].drone_id # call.drone_id
                  /\ ScoreDrone(drones[k], MissionOf(o.mission), missions).score > -100
====
